---- MODULE Spec2Model ----
(***************************************************************************)
(* The forward proxy of simple_proxy.py: ProxyServer.handle_client, the    *)
(* address extraction it performs on the request line, the CONNECT tunnel  *)
(* and plain HTTP paths, and the relay loop forward_data.                  *)
(*                                                                         *)
(* A byte string is a sequence of one-character strings (a byte above      *)
(* 0x7f is written "xHH").  Positions returned by Find are 0-based, as     *)
(* those of bytes.find, and -1 means "not found".                          *)
(***************************************************************************)
EXTENDS Integers, Sequences, FiniteSets, TLC

VARIABLES
    pc,            \* control point of the handler thread
    request,       \* handle_client: the bytes returned by the first recv
    webserver,     \* handle_client: the extracted host
    port,          \* handle_client: the extracted port
    caller,        \* which function entered forward_data
    client_closed, \* client_socket.close() has been called
    remote_sock,   \* remote_socket: "none", "created", "connected", "closed"
    toClient,      \* bytes accepted by the sends on client_socket
    toOrigin,      \* bytes accepted by the sends on remote_socket
    nLocal,        \* how many leading bytes of toClient the handler itself produced
    nRequest,      \* how many leading bytes of toOrigin are the forwarded request
    cWritten,      \* bytes of ClientStream the client has written after its request
    cRead,         \* bytes of ClientStream the relay has read
    oWritten,      \* bytes of OriginStream the origin has written
    oRead,         \* bytes of OriginStream the relay has read
    clientPeer,    \* the client's end: "open", "eof" (closed), "reset"
    originPeer,    \* the origin's end: "open", "eof" (closed), "reset"
    readable,      \* forward_data: the sockets select returned, not yet visited
    sent,          \* the argument of the handler's own send on client_socket
    dials,         \* number of connect() calls made
    exit,          \* the path on which the handler ended
    lpc,           \* ProxyServer.start: control point of the listener (main thread)
    server_socket, \* self.server_socket: "created", "listening", "closed"
    status,        \* exit status of the process, -1 while it runs
    lerr,          \* the call whose exception `except Exception` of start caught
    accepted,      \* number of connections accept() has returned
    conn,          \* the handler threads: conn[c] is the frame of handle_client
    wire,          \* the peers: wire[p] is what party p wrote, got and did
    ytdlp_logs,    \* the module-level list ytdlp_logs: the recent extraction logs
    app_request,   \* the request the Flask app handled last
    app_response,  \* the response it returned: status code and body
    ran,           \* subprocess.run was called while handling that request
    fetched,       \* requests.get was called while handling that request
    thr,           \* simple_proxy: thr[t] is the frame of thread t
    console,       \* the last line on the console (stdout)
    stdout_ok,     \* the console stream can be written
    calls,         \* number of calls of extract_youtube_stream so far
    overlap,       \* two calls of extract_youtube_stream have run at a time
    spc,           \* control point of the handler of a /stream request
    header_data,   \* forward_response_with_cors: the bytes read so far
    inbox,         \* inbox[s]: bytes arrived on socket s and not read yet
    outbox,        \* outbox[s]: bytes the sends on socket s have accepted
    socks,         \* socks[s]: "none", "open" or "closed"
    peers          \* peers[s]: the party at the other end of socket s

\* the state of the handler of one connection, taken alone
connVars == <<pc, request, webserver, port, caller, client_closed, remote_sock,
              toClient, toOrigin, nLocal, nRequest, cWritten, cRead, oWritten, oRead,
              clientPeer, originPeer, readable, sent, dials, exit>>

\* the state of the server: the listener, its handler threads and their peers
srvVars == <<lpc, server_socket, status, lerr, accepted, conn, wire>>

\* the state of the Flask app of serverless_handler.py
appVars == <<ytdlp_logs, app_request, app_response, ran, fetched>>

\* the threads of simple_proxy.py, the console and the calls of the extraction
logVars == <<thr, console, stdout_ok, calls, overlap>>

\* the state of the stream relay with its two sockets
corsVars == <<spc, header_data, inbox, outbox, socks, peers>>

vars == <<connVars, srvVars, appVars, logVars, corsVars>>

\* no server runs: the handler of one connection is looked at alone
ServerOff ==
    /\ lpc = "off" /\ server_socket = "none" /\ status = -1 /\ lerr = "none"
    /\ accepted = 0 /\ conn = <<>> /\ wire = <<>>

\* no request, no response
NoRequest == [method |-> "none", path |-> <<>>, id |-> <<>>, url |-> <<>>]
NoResponse == [status |-> 0, body |-> [none |-> TRUE]]

\* the Flask app is not looked at
AppOff ==
    /\ ytdlp_logs = <<>> /\ app_request = NoRequest /\ app_response = NoResponse
    /\ ran = FALSE /\ fetched = FALSE

\* the threads and their log are not looked at
LogOff ==
    /\ thr = <<>> /\ console = <<>> /\ stdout_ok = TRUE
    /\ calls = 0 /\ overlap = FALSE

\* the stream relay is not looked at
CorsOff ==
    /\ spc = "off" /\ header_data = <<>> /\ inbox = <<>> /\ outbox = <<>>
    /\ socks = <<>> /\ peers = <<>>

-----------------------------------------------------------------------------
(* Bounds of the model *)

\* the most bytes by which one send may fall short of the bytes it was given
MaxShort == 1
\* how many bytes the client writes into an established relay
MaxClientBytes == 3
\* how many bytes the origin writes into an established relay
MaxOriginBytes == 2

(* Program constants *)

BIND_PORT == 6178
BUFFER_SIZE == 8192
DEFAULT_PORT == 80

-----------------------------------------------------------------------------
(* bytes operations of Python, as the code uses them *)

Min(S) == CHOOSE x \in S : \A y \in S : x <= y

\* bytes.find(pat): the lowest 0-based index where pat occurs, or -1
Find(s, pat) ==
    LET hits == {i \in 0..(Len(s) - Len(pat)) : SubSeq(s, i + 1, i + Len(pat)) = pat}
    IN  IF hits = {} THEN -1 ELSE Min(hits)

\* `pat in s`
Contains(s, pat) == Find(s, pat) # -1

\* s.startswith(pat)
StartsWith(s, pat) == Len(s) >= Len(pat) /\ SubSeq(s, 1, Len(pat)) = pat

\* s[a:] for a >= 0
SliceFrom(s, a) == SubSeq(s, a + 1, Len(s))

\* s[:b]; a negative b counts from the end
SliceTo(s, b) ==
    IF b >= 0 THEN SubSeq(s, 1, IF b < Len(s) THEN b ELSE Len(s))
    ELSE SubSeq(s, 1, IF Len(s) + b > 0 THEN Len(s) + b ELSE 0)

\* s.split(sep) for a one-byte separator: never empty, keeps empty fields
RECURSIVE Split(_, _)
Split(s, sep) ==
    LET p == Find(s, <<sep>>)
    IN  IF p = -1 THEN <<s>> ELSE <<SliceTo(s, p)>> \o Split(SliceFrom(s, p + 1), sep)

\* s.split(sep, 1)
Split1(s, sep) ==
    LET p == Find(s, <<sep>>)
    IN  IF p = -1 THEN <<s>> ELSE <<SliceTo(s, p), SliceFrom(s, p + 1)>>

UPPER == <<"A","B","C","D","E","F","G","H","I","J","K","L","M","N","O","P","Q","R","S","T","U","V","W","X",
      "Y","Z">>
LOWER == <<"a","b","c","d","e","f","g","h","i","j","k","l","m","n","o","p","q","r","s","t","u","v","w","x",
      "y","z">>

LowerByte(c) ==
    IF \E i \in 1..Len(UPPER) : UPPER[i] = c
    THEN LOWER[CHOOSE i \in 1..Len(UPPER) : UPPER[i] = c]
    ELSE c

\* s.lower()
Lower(s) == [i \in 1..Len(s) |-> LowerByte(s[i])]

WHITESPACE == {" ", "\t", "\n", "\r"}

\* s.strip()
RECURSIVE LStrip(_)
LStrip(s) == IF s # <<>> /\ Head(s) \in WHITESPACE THEN LStrip(Tail(s)) ELSE s
RECURSIVE RStrip(_)
RStrip(s) ==
    IF s # <<>> /\ s[Len(s)] \in WHITESPACE THEN RStrip(SubSeq(s, 1, Len(s) - 1)) ELSE s
Strip(s) == RStrip(LStrip(s))

DIGITS == <<"0","1","2","3","4","5","6","7","8","9">>

IsDigit(c) == \E i \in 1..Len(DIGITS) : DIGITS[i] = c
DigitValue(c) == (CHOOSE i \in 1..Len(DIGITS) : DIGITS[i] = c) - 1

\* the value of a run of digits (underscores skipped), most significant first
RECURSIVE DigitsValue(_, _)
DigitsValue(s, acc) ==
    IF s = <<>> THEN acc
    ELSE IF Head(s) = "_" THEN DigitsValue(Tail(s), acc)
    ELSE DigitsValue(Tail(s), 10 * acc + DigitValue(Head(s)))

\* int(b): surrounding whitespace and one sign are accepted, single underscores
\* may separate digits; anything else raises ValueError
IntBody(s) ==
    LET t == Strip(s) IN IF t # <<>> /\ Head(t) \in {"+", "-"} THEN Tail(t) ELSE t
IntOk(s) ==
    LET b == IntBody(s)
    IN  /\ b # <<>>
        /\ \A i \in 1..Len(b) : IsDigit(b[i]) \/ b[i] = "_"
        /\ IsDigit(b[1]) /\ IsDigit(b[Len(b)])
        /\ \A i \in 1..(Len(b) - 1) : ~(b[i] = "_" /\ b[i + 1] = "_")
IntValue(s) ==
    LET t == Strip(s)
        v == DigitsValue(IntBody(s), 0)
    IN  IF t # <<>> /\ Head(t) = "-" THEN 0 - v ELSE v

-----------------------------------------------------------------------------
(* handle_client: the request line and the address extraction *)

\* first_line = request.split(b'\n')[0]
FirstLine(req) == Split(req, "\n")[1]

\* url.find(b'://') and the scheme strip
SchemeStrip(url) ==
    LET http_pos == Find(url, <<":","/","/">>)
    IN  IF http_pos = -1 THEN url ELSE SliceFrom(url, http_pos + 3)

\* the port branch of the extraction: taken when a ':' precedes the first '/'
PortBranch_AnyColon(port_pos, webserver_pos) == port_pos # -1
PortBranch(port_pos, webserver_pos) == ~(port_pos = -1 \/ webserver_pos < port_pos)

\* the bytes handed to int(): temp[(port_pos + 1):][:webserver_pos - port_pos - 1]
PortText_OffByOne(temp, port_pos, webserver_pos) ==
    SliceTo(SliceFrom(temp, port_pos + 1), webserver_pos - port_pos - 2)
PortText(temp, port_pos, webserver_pos) ==
    SliceTo(SliceFrom(temp, port_pos + 1), webserver_pos - port_pos - 1)

\* temp.find(b'/'), or len(temp) when temp holds no '/'
WebserverPos_NoDefault(temp) == Find(temp, <<"/">>)
WebserverPos(temp) ==
    LET slash == Find(temp, <<"/">>)
    IN  IF slash = -1 THEN Len(temp) ELSE slash

\* Lines 451-473.  err is the exception the fragment raises, if any.
ExtractAddress(first_line) ==
    LET fields == Split(first_line, " ")
    IN  IF Len(fields) < 2
        THEN [err |-> "IndexError", webserver |-> <<>>, port |-> -1]
        ELSE
        LET url == fields[2]
            temp == SchemeStrip(url)
            port_pos == Find(temp, <<":">>)
            webserver_pos == WebserverPos(temp)
        IN  IF ~PortBranch(port_pos, webserver_pos)
            THEN [err |-> "none", webserver |-> SliceTo(temp, webserver_pos),
                  port |-> DEFAULT_PORT]
            ELSE
            LET text == PortText(temp, port_pos, webserver_pos)
            IN  IF IntOk(text)
                THEN [err |-> "none", webserver |-> SliceTo(temp, port_pos),
                      port |-> IntValue(text)]
                ELSE [err |-> "ValueError", webserver |-> <<>>, port |-> -1]

-----------------------------------------------------------------------------
(* Requests a client may send *)

\* decimal text of a natural number
RECURSIVE Dec(_)
Dec(n) == IF n < 10 THEN <<DIGITS[n + 1]>> ELSE Dec(n \div 10) \o <<DIGITS[(n % 10) + 1]>>

Hosts == {<<"e","x","a","m","p","l","e",".","c","o","m">>, <<"h">>, <<"1","0",".","0",".","0",".","1">>, <<"a","-","b",".","o","r","g">>}
Ports == {1, 9, 10, 80, 443, 8080, 65535}
Paths == {<<"/">>, <<"/","p","a","t","h">>, <<"/","a",":","b">>, <<"/","p",":","8","/","q">>, <<"/","x","?","u","=","h","t","t","p",":","/","/","y",":","1","/">>}

CRLF == <<"\r","\n">>

\* CONNECT host:port HTTP/1.1
ConnectRequest(h, P) ==
    <<"C","O","N","N","E","C","T"," ">> \o h \o <<":">> \o Dec(P) \o <<" ","H","T","T","P","/","1",".","1">> \o CRLF
    \o <<"H","o","s","t",":"," ">> \o h \o <<":">> \o Dec(P) \o CRLF \o CRLF

\* GET http://host/path HTTP/1.1
AbsRequest(h, path) ==
    <<"G","E","T"," ","h","t","t","p",":","/","/">> \o h \o path \o <<" ","H","T","T","P","/","1",".","1">> \o CRLF
    \o <<"H","o","s","t",":"," ">> \o h \o CRLF \o CRLF

\* GET http://host:port/path HTTP/1.1
AbsPortRequest(h, P, path) ==
    <<"G","E","T"," ","h","t","t","p",":","/","/">> \o h \o <<":">> \o Dec(P) \o path \o <<" ","H","T","T","P","/","1",".","1">> \o CRLF
    \o <<"H","o","s","t",":"," ">> \o h \o <<":">> \o Dec(P) \o CRLF \o CRLF

\* GET url HTTP/1.1, for any URL field
UrlRequest(url) ==
    <<"G","E","T"," ">> \o url \o <<" ","H","T","T","P","/","1",".","1">> \o CRLF \o CRLF

\* a path and query that hold a URL of another host
LATE_SCHEME == <<"/","p","?","u","=","h","t","t","p",":","/","/","o","t","h","e","r",":","9","9","/">>

ResolveInputs ==
    {ConnectRequest(h, P) : h \in Hosts, P \in Ports}
    \cup {AbsRequest(h, path) : h \in Hosts, path \in Paths}
    \cup {AbsPortRequest(h, P, path) : h \in Hosts, P \in Ports, path \in Paths}
    \cup {UrlRequest(h) : h \in Hosts}
    \cup {UrlRequest(h \o LATE_SCHEME) : h \in Hosts}

-----------------------------------------------------------------------------
(* handle_client: classification of the request *)

\* b'GET /api/stream/' in first_line
IsApiStream(first_line) == Contains(first_line, <<"G","E","T"," ","/","a","p","i","/","s","t","r","e","a","m","/">>)
\* b'GET /stream' in first_line
IsStream(first_line) == Contains(first_line, <<"G","E","T"," ","/","s","t","r","e","a","m">>)
\* b'GET /ytdlp' in first_line
IsYtdlp(first_line) == Contains(first_line, <<"G","E","T"," ","/","y","t","d","l","p">>)
\* a request one of the three endpoint blocks takes; each of them returns
IsEndpoint(first_line) ==
    IsApiStream(first_line) \/ IsStream(first_line) \/ IsYtdlp(first_line)

\* b'GET /health' in first_line or b'GET / HTTP' in first_line
IsHealthLine(first_line) ==
    Contains(first_line, <<"G","E","T"," ","/","h","e","a","l","t","h">>) \/ Contains(first_line, <<"G","E","T"," ","/"," ","H","T","T","P">>)

\* the scan for the Host header: the first line that starts with host:
RECURSIVE HostHeaderOf(_)
HostHeaderOf(lines) ==
    IF lines = <<>> THEN <<>>
    ELSE IF StartsWith(Lower(Head(lines)), <<"h","o","s","t",":">>)
         THEN Lower(Strip(Split1(Head(lines), ":")[2]))
         ELSE HostHeaderOf(Tail(lines))
HostHeader(req) == HostHeaderOf(Split(req, "\n"))

\* is_local or is_proxy_domain
IsSelf(host_header) ==
    \/ Contains(host_header, <<"l","o","c","a","l","h","o","s","t">>)
    \/ Contains(host_header, <<"1","2","7",".">>)
    \/ Contains(host_header, <<":","2","0","8","2">>)
    \/ Contains(host_header, <<"s","e","r","v","x",".","p","g","w","i","z",".","u","s",".","k","g">>)
    \/ Contains(host_header, <<"p","g","w","i","z">>)

\* the health block answers the request
IsHealthCheck(req) == IsHealthLine(FirstLine(req)) /\ IsSelf(HostHeader(req))

\* b'CONNECT' in first_line
IsConnect(first_line) == Contains(first_line, <<"C","O","N","N","E","C","T">>)

-----------------------------------------------------------------------------
(* The handler's own responses *)

CONNECT_ESTABLISHED == <<"H","T","T","P","/","1",".","1"," ","2","0","0"," ","C","o","n","n","e","c","t","i","o","n"," ",
      "E","s","t","a","b","l","i","s","h","e","d","\r","\n","\r","\n">>

HTML_HEAD == <<"H","T","T","P","/","1",".","1"," ","2","0","0"," ","O","K","\r","\n","C","o","n","t","e","n",
      "t","-","T","y","p","e",":"," ","t","e","x","t","/","h","t","m","l","\r","\n","C","o","n","n",
      "e","c","t","i","o","n",":"," ","c","l","o","s","e","\r","\n","\r","\n">>
HTML_BEFORE_LOGS ==
    <<"<","!","D","O","C","T","Y","P","E"," ","h","t","m","l",">","\n","<","h","t","m","l",">","<",
      "h","e","a","d",">","<","m","e","t","a"," ","c","h","a","r","s","e","t","=","\"","U","T","F",
      "-","8","\"",">","<","t","i","t","l","e",">","P","r","o","x","y"," ","S","e","r","v","e","r",
      "<","/","t","i","t","l","e",">","\n","<","s","t","y","l","e",">","\n","b","o","d","y"," ","{",
      " ","f","o","n","t","-","f","a","m","i","l","y",":"," ","m","o","n","o","s","p","a","c","e",";",
      " ","b","a","c","k","g","r","o","u","n","d",":"," ","#","1","a","1","a","2","e",";"," ","c","o",
      "l","o","r",":"," ","#","0","f","0",";"," ","p","a","d","d","i","n","g",":"," ","2","0","p","x",
      ";"," ","}","\n","h","1"," ","{"," ","c","o","l","o","r",":"," ","#","4","a","d","e","8","0",
      ";"," ","}","\n",".","s","t","a","t","u","s"," ","{"," ","c","o","l","o","r",":"," ","#","4",
      "a","d","e","8","0",";"," ","f","o","n","t","-","s","i","z","e",":"," ","2","4","p","x",";"," ",
      "m","a","r","g","i","n",":"," ","2","0","p","x"," ","0",";"," ","}","\n","p","r","e"," ","{",
      " ","b","a","c","k","g","r","o","u","n","d",":"," ","#","0","d","0","d","1","a",";"," ","p","a",
      "d","d","i","n","g",":"," ","1","5","p","x",";"," ","b","o","r","d","e","r","-","r","a","d","i",
      "u","s",":"," ","8","p","x",";"," ","o","v","e","r","f","l","o","w","-","x",":"," ","a","u","t",
      "o",";"," ","m","a","x","-","h","e","i","g","h","t",":"," ","4","0","0","p","x",";"," ","o","v",
      "e","r","f","l","o","w","-","y",":"," ","a","u","t","o",";"," ","}","\n","b","u","t","t","o",
      "n"," ","{"," ","b","a","c","k","g","r","o","u","n","d",":"," ","#","4","a","d","e","8","0",";",
      " ","c","o","l","o","r",":"," ","#","0","0","0",";"," ","b","o","r","d","e","r",":"," ","n","o",
      "n","e",";"," ","p","a","d","d","i","n","g",":"," ","1","0","p","x"," ","2","0","p","x",";"," ",
      "b","o","r","d","e","r","-","r","a","d","i","u","s",":"," ","5","p","x",";"," ","c","u","r","s",
      "o","r",":"," ","p","o","i","n","t","e","r",";"," ","m","a","r","g","i","n",":"," ","5","p","x",
      ";"," ","}","\n","b","u","t","t","o","n",":","h","o","v","e","r"," ","{"," ","b","a","c","k",
      "g","r","o","u","n","d",":"," ","#","2","2","c","5","5","e",";"," ","}","\n","<","/","s","t",
      "y","l","e",">","<","/","h","e","a","d",">","<","b","o","d","y",">","\n","<","h","1",">","xF0",
      "x9F","x8C","x90"," ","P","r","o","x","y"," ","S","e","r","v","e","r","<","/","h","1",">","\n",
      "<","d","i","v"," ","c","l","a","s","s","=","\"","s","t","a","t","u","s","\"",">","xE2","x9C",
      "x85"," ","P","r","o","x","y"," ","S","e","r","v","e","r"," ","i","s"," ","A","l","i","v","e",
      "<","/","d","i","v",">","\n","<","p",">","<","s","t","r","o","n","g",">","P","o","r","t",":",
      "<","/","s","t","r","o","n","g",">"," ","2","0","8","2"," ","|"," ","<","s","t","r","o","n","g",
      ">","L","o","g","s",":","<","/","s","t","r","o","n","g",">"," ","/","r","o","o","t","/","p","r",
      "o","x","y","L","o","g","s","/","<","/","p",">","\n","<","b","u","t","t","o","n"," ","o","n",
      "c","l","i","c","k","=","\"","n","a","v","i","g","a","t","o","r",".","c","l","i","p","b","o",
      "a","r","d",".","w","r","i","t","e","T","e","x","t","(","'","h","t","t","p",":","/","/","s","e",
      "r","v","x",".","p","g","w","i","z",".","u","s",".","k","g",":","2","0","8","2","'",")","\"",
      ">","xF0","x9F","x93","x8B"," ","C","o","p","y"," ","P","r","o","x","y"," ","U","R","L","<","/",
      "b","u","t","t","o","n",">","\n","<","b","u","t","t","o","n"," ","o","n","c","l","i","c","k",
      "=","\"","l","o","c","a","t","i","o","n",".","r","e","l","o","a","d","(",")","\"",">","xF0",
      "x9F","x94","x84"," ","R","e","f","r","e","s","h","<","/","b","u","t","t","o","n",">","\n","<",
      "h","3",">","xF0","x9F","x93","x9C"," ","R","e","c","e","n","t"," ","L","o","g","s"," ","(","L",
      "a","s","t"," ","5","0",")","<","/","h","3",">","\n","<","p","r","e"," ","i","d","=","\"","l",
      "o","g","s","\"",">">>
HTML_AFTER_LOGS ==
    <<"<","/","p","r","e",">","\n","<","s","c","r","i","p","t",">","s","e","t","T","i","m","e","o",
      "u","t","(","(",")","=",">","l","o","c","a","t","i","o","n",".","r","e","l","o","a","d","(",")",
      ","," ","1","0","0","0","0",")",";","<","/","s","c","r","i","p","t",">","\n","<","/","b","o",
      "d","y",">","<","/","h","t","m","l",">">>

\* what the health block may find in today's log file (its last 50 lines)
NO_LOGS_YET == <<"(","N","o"," ","l","o","g","s"," ","y","e","t",")">>
LOG_LINE == <<"[","2","0","2","6","-","0","1","-","0","1"," ","0","0",":","0","0",":","0","0","]"," ","F","I",
      "R","S","T"," ","L","I","N","E",":"," ","b","'","G","E","T"," ","/","h","e","a","l","t","h"," ",
      "H","T","T","P","/","1",".","1","\\","r","'","\n">>
LogContents == {NO_LOGS_YET, <<>>, LOG_LINE}

\* response = f"HTTP/1.1 200 OK...\r\n\r\n{html}".encode()
HealthResponse_Plain(log_content) ==
    <<"H","T","T","P","/","1",".","1"," ","2","0","0"," ","O","K","\r","\n","C","o","n","t","e","n",
      "t","-","T","y","p","e",":"," ","t","e","x","t","/","p","l","a","i","n","\r","\n","C","o","n",
      "n","e","c","t","i","o","n",":"," ","c","l","o","s","e","\r","\n","\r","\n">>
    \o <<"P","r","o","x","y"," ","S","e","r","v","e","r"," ","i","s"," ","A","l","i","v","e">>
HealthResponse(log_content) ==
    HTML_HEAD \o HTML_BEFORE_LOGS \o log_content \o HTML_AFTER_LOGS

-----------------------------------------------------------------------------
(* Requests of the handler model *)

EXAMPLE == <<"e","x","a","m","p","l","e",".","c","o","m">>
PATH == <<"/","p","a","t","h">>

HEALTH_REQUEST == <<"G","E","T"," ","/","h","e","a","l","t","h"," ","H","T","T","P","/","1",".","1","\r","\n","H",
      "o","s","t",":"," ","l","o","c","a","l","h","o","s","t",":","6","1","7","8","\r","\n","\r","\n">>
ROOT_REQUEST == <<"G","E","T"," ","/"," ","H","T","T","P","/","1",".","1","\r","\n","H","o","s","t",":"," ","1",
      "2","7",".","0",".","0",".","1",":","6","1","7","8","\r","\n","\r","\n">>
HEALTH_ELSEWHERE_REQUEST == <<"G","E","T"," ","/","h","e","a","l","t","h"," ","H","T","T","P","/","1",".","1","\r","\n","H",
      "o","s","t",":"," ","e","x","a","m","p","l","e",".","c","o","m","\r","\n","\r","\n">>
NO_FIELDS_REQUEST == <<"B","O","G","U","S","\r","\n","\r","\n">>
BAD_PORT_REQUEST == <<"C","O","N","N","E","C","T"," ","e","x","a","m","p","l","e",".","c","o","m",":","h","t","t","p",
      "s"," ","H","T","T","P","/","1",".","1","\r","\n","\r","\n">>
HUGE_PORT_REQUEST == <<"C","O","N","N","E","C","T"," ","e","x","a","m","p","l","e",".","c","o","m",":","7","0","0","0",
      "0"," ","H","T","T","P","/","1",".","1","\r","\n","\r","\n">>
API_STREAM_REQUEST == <<"G","E","T"," ","/","a","p","i","/","s","t","r","e","a","m","/","a","b","c"," ","H","T","T","P",
      "/","1",".","1","\r","\n","H","o","s","t",":"," ","l","o","c","a","l","h","o","s","t",":","6",
      "1","7","8","\r","\n","\r","\n">>
STREAM_REQUEST ==
    <<"G","E","T"," ","/","s","t","r","e","a","m","?","u","r","l","=","h","t","t","p","%","3","A","%",
      "2","F","%","2","F","e","x","a","m","p","l","e",".","c","o","m","%","2","F","v"," ","H","T","T",
      "P","/","1",".","1","\r","\n","H","o","s","t",":"," ","l","o","c","a","l","h","o","s","t",":",
      "6","1","7","8","\r","\n","\r","\n">>
YTDLP_REQUEST == <<"G","E","T"," ","/","y","t","d","l","p","?","i","d","=","a","b","c"," ","H","T","T","P","/","1",
      ".","1","\r","\n","H","o","s","t",":"," ","l","o","c","a","l","h","o","s","t",":","6","1","7",
      "8","\r","\n","\r","\n">>
STREAM_NO_URL_REQUEST == <<"G","E","T"," ","/","s","t","r","e","a","m"," ","H","T","T","P","/","1",".","1","\r","\n","H",
      "o","s","t",":"," ","l","o","c","a","l","h","o","s","t",":","6","1","7","8","\r","\n","\r","\n">>
YTDLP_NO_ID_REQUEST == <<"G","E","T"," ","/","y","t","d","l","p","?","v","=","a","b","c"," ","H","T","T","P","/","1",".",
      "1","\r","\n","H","o","s","t",":"," ","l","o","c","a","l","h","o","s","t",":","6","1","7","8",
      "\r","\n","\r","\n">>
\* a health request that names the port the server listens on, at an address
\* that is not a loopback address
OWN_PORT_HEALTH_REQUEST == <<"G","E","T"," ","/","h","e","a","l","t","h"," ","H","T","T","P","/","1",".","1","\r","\n","H",
      "o","s","t",":"," ","1","0",".","0",".","0",".","1",":","6","1","7","8","\r","\n","\r","\n">>
\* a health request that names another host and another port
PORT_2082_HEALTH_REQUEST == <<"G","E","T"," ","/","h","e","a","l","t","h"," ","H","T","T","P","/","1",".","1","\r","\n","H",
      "o","s","t",":"," ","e","x","a","m","p","l","e",".","c","o","m",":","2","0","8","2","\r","\n",
      "\r","\n">>
\* a GET whose URL holds the word CONNECT
GET_CONNECT_REQUEST == <<"G","E","T"," ","h","t","t","p",":","/","/","e","x","a","m","p","l","e",".","c","o","m","/","C",
      "O","N","N","E","C","T"," ","H","T","T","P","/","1",".","1","\r","\n","H","o","s","t",":"," ",
      "e","x","a","m","p","l","e",".","c","o","m","\r","\n","\r","\n">>
\* an unparsable port in the second field, and GET /health further on
BAD_PORT_HEALTH_REQUEST == <<"X"," ","a",":","b"," ","G","E","T"," ","/","h","e","a","l","t","h"," ","H","T","T","P","/","1",
      ".","1","\r","\n","H","o","s","t",":"," ","l","o","c","a","l","h","o","s","t",":","6","1","7",
      "8","\r","\n","\r","\n">>

Requests == {
    ConnectRequest(EXAMPLE, 443),
    AbsRequest(EXAMPLE, PATH),
    AbsPortRequest(EXAMPLE, 8080, PATH),
    HEALTH_REQUEST, ROOT_REQUEST, HEALTH_ELSEWHERE_REQUEST,
    NO_FIELDS_REQUEST, BAD_PORT_REQUEST, HUGE_PORT_REQUEST,
    API_STREAM_REQUEST, STREAM_REQUEST, YTDLP_REQUEST,
    GET_CONNECT_REQUEST, BAD_PORT_HEALTH_REQUEST,
    OWN_PORT_HEALTH_REQUEST, PORT_2082_HEALTH_REQUEST,
    STREAM_NO_URL_REQUEST, YTDLP_NO_ID_REQUEST }

----------------------------------------------------------------------------
(* handle_client: the endpoint blocks *)

\* first_line.split(b' ')[1]; an endpoint line holds a space, so the field exists
Target(first_line) == Split(first_line, " ")[2]

\* urlparse(path).query: what follows the first '?', without the fragment
QueryOf(path) ==
    LET no_fragment == Split(path, "#")[1]
        q == Find(no_fragment, <<"?">>)
    IN  IF q = -1 THEN <<>> ELSE SliceFrom(no_fragment, q + 1)

\* parse_qs(query).get(name, [None])[0] is not None: some field of the query
\* is name=value with a value that is not blank
HasParam(query, name) ==
    LET pairs == Split(query, "&")
    IN  \E i \in 1..Len(pairs) :
            LET eq == Find(pairs[i], <<"=">>)
            IN  /\ eq # -1
                /\ SliceTo(pairs[i], eq) = name
                /\ SliceFrom(pairs[i], eq + 1) # <<>>

URL_PARAM == <<"u","r","l">>
ID_PARAM == <<"i","d">>

MISSING_URL_400 ==
    <<"H","T","T","P","/","1",".","1"," ","4","0","0"," ","B","a","d"," ","R","e","q","u","e","s","t",
      "\r","\n","C","o","n","t","e","n","t","-","T","y","p","e",":"," ","t","e","x","t","/","p","l",
      "a","i","n","\r","\n","C","o","n","n","e","c","t","i","o","n",":"," ","c","l","o","s","e","\r",
      "\n","\r","\n","M","i","s","s","i","n","g"," ","'","u","r","l","'"," ","p","a","r","a","m","e",
      "t","e","r","\r","\n">>
MISSING_ID_400 ==
    <<"H","T","T","P","/","1",".","1"," ","4","0","0"," ","B","a","d"," ","R","e","q","u","e","s","t",
      "\r","\n","C","o","n","t","e","n","t","-","T","y","p","e",":"," ","t","e","x","t","/","p","l",
      "a","i","n","\r","\n","C","o","n","n","e","c","t","i","o","n",":"," ","c","l","o","s","e","\r",
      "\n","\r","\n","M","i","s","s","i","n","g"," ","'","i","d","'"," ","p","a","r","a","m","e","t",
      "e","r","\r","\n">>
JSON_500_HEAD ==
    <<"H","T","T","P","/","1",".","1"," ","5","0","0"," ","I","n","t","e","r","n","a","l"," ","S","e",
      "r","v","e","r"," ","E","r","r","o","r","\r","\n","C","o","n","t","e","n","t","-","T","y","p",
      "e",":"," ","a","p","p","l","i","c","a","t","i","o","n","/","j","s","o","n","\r","\n","A","c",
      "c","e","s","s","-","C","o","n","t","r","o","l","-","A","l","l","o","w","-","O","r","i","g","i",
      "n",":"," ","*","\r","\n","C","o","n","n","e","c","t","i","o","n",":"," ","c","l","o","s","e",
      "\r","\n","\r","\n">>
API_STREAM_FAILED_500 == JSON_500_HEAD \o <<"{","\"","e","r","r","o","r","\"",":"," ","\"","F","a","i","l","e","d"," ","t","o"," ","e","x",
      "t","r","a","c","t"," ","s","t","r","e","a","m","\"","}">>
YTDLP_FAILED_500 == JSON_500_HEAD \o <<"{","\"","e","r","r","o","r","\"",":"," ","\"","F","a","i","l","e","d"," ","t","o"," ","e","x",
      "t","r","a","c","t"," ","s","t","r","e","a","m"," ","U","R","L","\"","}">>
JSON_200_HEAD ==
    <<"H","T","T","P","/","1",".","1"," ","2","0","0"," ","O","K","\r","\n","C","o","n","t","e","n",
      "t","-","T","y","p","e",":"," ","a","p","p","l","i","c","a","t","i","o","n","/","j","s","o","n",
      "\r","\n","A","c","c","e","s","s","-","C","o","n","t","r","o","l","-","A","l","l","o","w","-",
      "O","r","i","g","i","n",":"," ","*","\r","\n","C","o","n","n","e","c","t","i","o","n",":"," ",
      "c","l","o","s","e","\r","\n","C","o","n","t","e","n","t","-","L","e","n","g","t","h",":"," ">>

\* the 200 response around json.dumps(result)
Json200(response_body) ==
    JSON_200_HEAD \o Dec(Len(response_body)) \o CRLF \o CRLF \o response_body

\* json.dumps(result) for a successful extraction of video abc, its url
\* rewritten to the /stream endpoint of the Host the request named
SAMPLE_RESULT ==
    <<"{","\"","t","i","t","l","e","\"",":"," ","\"","t","\"",","," ","\"","u","r","l","\"",":"," ",
      "\"","h","t","t","p","s",":","/","/","l","o","c","a","l","h","o","s","t",":","6","1","7","8",
      "/","s","t","r","e","a","m","?","u","r","l","=","h","t","t","p","s","%","3","A","/","/","o",".",
      "e","x","a","m","p","l","e","/","v",".","m","p","4","\"",","," ","\"","t","h","u","m","b","n",
      "a","i","l","\"",":"," ","\"","h","t","t","p","s",":","/","/","i","m","g",".","y","o","u","t",
      "u","b","e",".","c","o","m","/","v","i","/","a","b","c","/","m","q","d","e","f","a","u","l","t",
      ".","j","p","g","\"",","," ","\"","d","u","r","a","t","i","o","n","\"",":"," ","\"","0","\"",
      ","," ","\"","u","p","l","o","a","d","e","r","\"",":"," ","\"","U","n","k","n","o","w","n","\"",
      ","," ","\"","i","d","\"",":"," ","\"","a","b","c","\"",","," ","\"","v","i","d","e","o","I",
      "d","\"",":"," ","\"","a","b","c","\"",","," ","\"","f","o","r","m","a","t","_","i","d","\"",
      ":"," ","\"","1","8","\"",","," ","\"","e","x","t","\"",":"," ","\"","m","p","4","\"",","," ",
      "\"","o","r","i","g","i","n","a","l","_","u","r","l","\"",":"," ","\"","h","t","t","p","s",":",
      "/","/","o",".","e","x","a","m","p","l","e","/","v",".","m","p","4","\"","}">>
ResultBodies == {SAMPLE_RESULT}

\* the /stream block dials the url parameter and relays
IsStreamRelay(first_line) ==
    /\ ~IsApiStream(first_line) /\ IsStream(first_line)
    /\ HasParam(QueryOf(Target(first_line)), URL_PARAM)

\* what an endpoint block may pass to client_socket.send: extract_youtube_stream
\* returns a result or None
EndpointReplies_None(first_line) == {}
EndpointReplies(first_line) ==
    IF IsApiStream(first_line)
    THEN {Json200(b) : b \in ResultBodies} \cup {API_STREAM_FAILED_500}
    ELSE IF IsStream(first_line)
    THEN IF HasParam(QueryOf(Target(first_line)), URL_PARAM) THEN {}
         ELSE {MISSING_URL_400}
    ELSE IF ~HasParam(QueryOf(Target(first_line)), ID_PARAM)
    THEN {MISSING_ID_400}
    ELSE {Json200(b) : b \in ResultBodies} \cup {YTDLP_FAILED_500}
-----------------------------------------------------------------------------
(* Sockets *)

\* the bytes the two peers write into an established relay
ClientStream == SubSeq(<<"c1", "c2", "c3", "c4", "c5">>, 1, MaxClientBytes)
OriginStream == SubSeq(<<"o1", "o2", "o3", "o4">>, 1, MaxOriginBytes)

\* sock.send(data) returns how many bytes the socket accepted: at least one,
\* at most all of them
SendCounts(data) == {n \in 1..Len(data) : Len(data) - n <= MaxShort}

\* the outcomes of sock.send(data) towards a peer: a count, or -1 when it
\* raises (a peer that has gone away makes it raise, at once or later)
SendOutcomes(peer, data) ==
    (IF peer = "reset" THEN {} ELSE SendCounts(data))
    \cup (IF peer = "open" THEN {} ELSE {-1})

\* remote_socket = socket.socket(...); remote_socket.connect((host, port)):
\* either call may raise, and connect always raises for a port outside 0..65535
DialOutcomes(p) ==
    {"socket_error", "connect_error"} \cup (IF p \in 0..65535 THEN {"ok"} ELSE {})

-----------------------------------------------------------------------------
(* handle_client *)

Init ==
    /\ pc = "recv"
    /\ request = <<>> /\ webserver = <<>> /\ port = -1
    /\ caller = "none" /\ client_closed = FALSE /\ remote_sock = "none"
    /\ toClient = <<>> /\ toOrigin = <<>> /\ nLocal = 0 /\ nRequest = 0
    /\ cWritten = 0 /\ cRead = 0 /\ oWritten = 0 /\ oRead = 0
    /\ clientPeer = "open" /\ originPeer = "open"
    /\ readable = <<>> /\ sent = <<>> /\ dials = 0 /\ exit = "none"
    /\ ServerOff
    /\ AppOff
    /\ LogOff
    /\ CorsOff

relayVars == <<cWritten, cRead, oWritten, oRead, readable>>

\* request = client_socket.recv(BUFFER_SIZE), the client's request arriving whole
RecvRequest ==
    /\ pc = "recv"
    /\ \E r \in Requests :
        /\ Len(r) <= BUFFER_SIZE
        /\ request' = r
    /\ pc' = "dispatch"
    /\ UNCHANGED <<webserver, port, caller, client_closed, remote_sock, toClient,
                   toOrigin, nLocal, nRequest, clientPeer, originPeer, sent, dials,
                   exit, relayVars>>
    /\ UNCHANGED <<srvVars, appVars, logVars, corsVars>>

RecvEmpty_NoClose ==
    /\ pc = "recv"
    /\ clientPeer' = "eof"
    /\ pc' = "done" /\ exit' = "empty"
    /\ UNCHANGED <<request, webserver, port, caller, client_closed, remote_sock,
                   toClient, toOrigin, nLocal, nRequest, originPeer, sent, dials,
                   relayVars>>
    /\ UNCHANGED <<srvVars, appVars, logVars, corsVars>>

\* `if not request`: the client closed before it sent a byte
RecvEmpty ==
    /\ pc = "recv"
    /\ clientPeer' = "eof"
    /\ client_closed' = TRUE
    /\ pc' = "done" /\ exit' = "empty"
    /\ UNCHANGED <<request, webserver, port, caller, remote_sock, toClient, toOrigin,
                   nLocal, nRequest, originPeer, sent, dials, relayVars>>
    /\ UNCHANGED <<srvVars, appVars, logVars, corsVars>>

\* the first recv raises: `except Exception` of handle_client closes the socket
RecvRaises ==
    /\ pc = "recv"
    /\ clientPeer' = "reset"
    /\ client_closed' = TRUE
    /\ pc' = "done" /\ exit' = "error"
    /\ UNCHANGED <<request, webserver, port, caller, remote_sock, toClient, toOrigin,
                   nLocal, nRequest, originPeer, sent, dials, relayVars>>
    /\ UNCHANGED <<srvVars, appVars, logVars, corsVars>>

\* The blocks for /api/stream/, /stream and /ytdlp.  Each answers with a
\* response of its own (one send, then close), except the /stream block with a
\* url parameter: it calls socket.create_connection (line 241), and either the
\* call raises, or the relay of the response runs and closes remote_socket, or
\* a call after it raises and remote_socket stays as it was.  The bytes that
\* relay moves between the upstream and the client are not recorded.  A send
\* that raises ends in an except clause that closes client_socket.
EndpointBlock ==
    /\ pc = "dispatch"
    /\ IsEndpoint(FirstLine(request))
    /\ \/ /\ IsStreamRelay(FirstLine(request))
          /\ dials' = dials + 1
          /\ remote_sock' \in {"none", "closed", "connected"}
          /\ UNCHANGED <<sent, toClient, nLocal>>
       \/ /\ \E response \in EndpointReplies(FirstLine(request)) :
                \E n \in SendOutcomes(clientPeer, response) :
                    /\ sent' = response
                    /\ toClient' = IF n = -1 THEN toClient
                                   ELSE toClient \o SliceTo(response, n)
                    /\ nLocal' = IF n = -1 THEN nLocal ELSE nLocal + n
          /\ UNCHANGED <<remote_sock, dials>>
    /\ client_closed' = TRUE
    /\ pc' = "done" /\ exit' = "endpoint"
    /\ UNCHANGED <<request, webserver, port, caller, toOrigin,
                   nRequest, clientPeer, originPeer, relayVars>>
    /\ UNCHANGED <<srvVars, appVars, logVars, corsVars>>

\* The health block: one send of the status page, close, return.  A send that
\* raises is caught by `except Exception` of handle_client, which closes too.
HealthCheck ==
    /\ pc = "dispatch"
    /\ ~IsEndpoint(FirstLine(request))
    /\ IsHealthCheck(request)
    /\ \E log_content \in LogContents :
        LET response == HealthResponse(log_content)
        IN  \E n \in SendOutcomes(clientPeer, response) :
                /\ sent' = response
                /\ toClient' = IF n = -1 THEN toClient ELSE toClient \o SliceTo(response, n)
                /\ nLocal' = IF n = -1 THEN nLocal ELSE nLocal + n
                /\ exit' = IF n = -1 THEN "error" ELSE "health"
    /\ client_closed' = TRUE
    /\ pc' = "done"
    /\ UNCHANGED <<request, webserver, port, caller, remote_sock, toOrigin, nRequest,
                   clientPeer, originPeer, dials, relayVars>>
    /\ UNCHANGED <<srvVars, appVars, logVars, corsVars>>

\* the request goes on to the address extraction
IsProxied_SkipsHealthBlock(req) == ~IsEndpoint(FirstLine(req))
IsProxied(req) == ~IsEndpoint(FirstLine(req)) /\ ~IsHealthCheck(req)

\* the except clause answers the client before closing
BAD_REQUEST == <<"H","T","T","P","/","1",".","1"," ","4","0","0"," ","B","a","d"," ","R","e","q","u","e","s","t",
      "\r","\n","\r","\n">>
ParseFails_BadRequest ==
    /\ pc = "dispatch"
    /\ IsProxied(request)
    /\ ExtractAddress(FirstLine(request)).err # "none"
    /\ sent' = BAD_REQUEST
    /\ toClient' = toClient \o BAD_REQUEST
    /\ nLocal' = nLocal + Len(BAD_REQUEST)
    /\ client_closed' = TRUE
    /\ pc' = "done" /\ exit' = "parse_error"
    /\ UNCHANGED <<request, webserver, port, caller, remote_sock, toOrigin,
                   nRequest, clientPeer, originPeer, dials, relayVars>>
    /\ UNCHANGED <<srvVars, appVars, logVars, corsVars>>

\* the extraction raises IndexError or ValueError: `except Exception`
ParseFails ==
    /\ pc = "dispatch"
    /\ IsProxied(request)
    /\ ExtractAddress(FirstLine(request)).err # "none"
    /\ client_closed' = TRUE
    /\ pc' = "done" /\ exit' = "parse_error"
    /\ UNCHANGED <<request, webserver, port, caller, remote_sock, toClient, toOrigin,
                   nLocal, nRequest, clientPeer, originPeer, sent, dials, relayVars>>
    /\ UNCHANGED <<srvVars, appVars, logVars, corsVars>>

\* lines 475-480: the choice between the tunnel and plain forwarding
Dispatch ==
    /\ pc = "dispatch"
    /\ IsProxied(request)
    /\ LET a == ExtractAddress(FirstLine(request))
       IN  /\ a.err = "none"
           /\ webserver' = a.webserver
           /\ port' = a.port
    /\ pc' = IF IsConnect(FirstLine(request)) THEN "tunnel" ELSE "http"
    /\ UNCHANGED <<request, caller, client_closed, remote_sock, toClient, toOrigin,
                   nLocal, nRequest, clientPeer, originPeer, sent, dials, exit,
                   relayVars>>
    /\ UNCHANGED <<srvVars, appVars, logVars, corsVars>>

-----------------------------------------------------------------------------
(* handle_https_tunnel *)

TunnelDial_ReplyFirst ==
    /\ pc = "tunnel"
    /\ toClient' = toClient \o CONNECT_ESTABLISHED
    /\ nLocal' = nLocal + Len(CONNECT_ESTABLISHED)
    /\ sent' = CONNECT_ESTABLISHED
    /\ \E o \in DialOutcomes(port) :
        /\ remote_sock' = CASE o = "socket_error" -> "none"
                            [] o = "connect_error" -> "created"
                            [] o = "ok" -> "connected"
        /\ dials' = IF o = "socket_error" THEN dials ELSE dials + 1
        /\ client_closed' = (o # "ok")
        /\ pc' = IF o = "ok" THEN "select" ELSE "done"
        /\ caller' = IF o = "ok" THEN "tunnel" ELSE caller
        /\ exit' = IF o = "ok" THEN exit ELSE "dial_failed"
    /\ UNCHANGED <<request, webserver, port, toOrigin, nRequest, clientPeer,
                   originPeer, relayVars>>
    /\ UNCHANGED <<srvVars, appVars, logVars, corsVars>>

\* socket.socket() and connect(); on an exception the handler closes
\* client_socket and nothing else
TunnelDial ==
    /\ pc = "tunnel"
    /\ \E o \in DialOutcomes(port) :
        /\ remote_sock' = CASE o = "socket_error" -> "none"
                            [] o = "connect_error" -> "created"
                            [] o = "ok" -> "connected"
        /\ dials' = IF o = "socket_error" THEN dials ELSE dials + 1
        /\ client_closed' = (o # "ok")
        /\ pc' = IF o = "ok" THEN "tunnel_send" ELSE "done"
        /\ exit' = IF o = "ok" THEN exit ELSE "dial_failed"
    /\ UNCHANGED <<request, webserver, port, caller, toClient, toOrigin, nLocal,
                   nRequest, clientPeer, originPeer, sent, relayVars>>
    /\ UNCHANGED <<srvVars, appVars, logVars, corsVars>>

\* client_socket.send(b'HTTP/1.1 200 Connection Established\r\n\r\n'), then
\* forward_data; a send that raises ends in the same except clause
TunnelSend ==
    /\ pc = "tunnel_send"
    /\ \E n \in SendOutcomes(clientPeer, CONNECT_ESTABLISHED) :
        /\ sent' = CONNECT_ESTABLISHED
        /\ toClient' = IF n = -1 THEN toClient
                       ELSE toClient \o SliceTo(CONNECT_ESTABLISHED, n)
        /\ nLocal' = IF n = -1 THEN nLocal ELSE nLocal + n
        /\ client_closed' = (n = -1)
        /\ pc' = IF n = -1 THEN "done" ELSE "select"
        /\ caller' = IF n = -1 THEN caller ELSE "tunnel"
        /\ exit' = IF n = -1 THEN "send_failed" ELSE exit
    /\ UNCHANGED <<request, webserver, port, remote_sock, toOrigin, nRequest,
                   clientPeer, originPeer, dials, relayVars>>
    /\ UNCHANGED <<srvVars, appVars, logVars, corsVars>>

-----------------------------------------------------------------------------
(* handle_http_request *)

BAD_GATEWAY == <<"H","T","T","P","/","1",".","1"," ","5","0","2"," ","B","a","d"," ","G","a","t","e","w","a","y",
      "\r","\n","\r","\n">>

HttpDial_ErrorReply ==
    /\ pc = "http"
    /\ \E o \in DialOutcomes(port) :
        /\ remote_sock' = CASE o = "socket_error" -> "none"
                            [] o = "connect_error" -> "closed"
                            [] o = "ok" -> "connected"
        /\ dials' = IF o = "socket_error" THEN dials ELSE dials + 1
        /\ toClient' = IF o = "ok" THEN toClient ELSE toClient \o BAD_GATEWAY
        /\ nLocal' = IF o = "ok" THEN nLocal ELSE nLocal + Len(BAD_GATEWAY)
        /\ sent' = IF o = "ok" THEN sent ELSE BAD_GATEWAY
        /\ client_closed' = (o # "ok")
        /\ pc' = IF o = "ok" THEN "http_send" ELSE "done"
        /\ exit' = IF o = "ok" THEN exit ELSE "dial_failed"
    /\ UNCHANGED <<request, webserver, port, caller, toOrigin, nRequest, clientPeer,
                   originPeer, relayVars>>
    /\ UNCHANGED <<srvVars, appVars, logVars, corsVars>>

HttpDial_Retry ==
    /\ pc = "http"
    /\ \E o \in DialOutcomes(port) :
        /\ remote_sock' = CASE o = "socket_error" -> "none"
                            [] o = "connect_error" -> "closed"
                            [] o = "ok" -> "connected"
        /\ dials' = IF o = "socket_error" THEN dials ELSE dials + 1
        /\ client_closed' = (o # "ok" /\ dials >= 1)
        /\ pc' = IF o = "ok" THEN "http_send" ELSE IF dials >= 1 THEN "done" ELSE "http"
        /\ exit' = IF o = "ok" \/ dials < 1 THEN exit ELSE "dial_failed"
    /\ UNCHANGED <<request, webserver, port, caller, toClient, toOrigin, nLocal,
                   nRequest, clientPeer, originPeer, sent, relayVars>>
    /\ UNCHANGED <<srvVars, appVars, logVars, corsVars>>

\* on an exception the handler closes client_socket, and remote_socket if
\* socket.socket() had returned
HttpDial ==
    /\ pc = "http"
    /\ \E o \in DialOutcomes(port) :
        /\ remote_sock' = CASE o = "socket_error" -> "none"
                            [] o = "connect_error" -> "closed"
                            [] o = "ok" -> "connected"
        /\ dials' = IF o = "socket_error" THEN dials ELSE dials + 1
        /\ client_closed' = (o # "ok")
        /\ pc' = IF o = "ok" THEN "http_send" ELSE "done"
        /\ exit' = IF o = "ok" THEN exit ELSE "dial_failed"
    /\ UNCHANGED <<request, webserver, port, caller, toClient, toOrigin, nLocal,
                   nRequest, clientPeer, originPeer, sent, relayVars>>
    /\ UNCHANGED <<srvVars, appVars, logVars, corsVars>>

\* remote_socket.send(request), then forward_data
HttpSend ==
    /\ pc = "http_send"
    /\ \E n \in SendOutcomes(originPeer, request) :
        /\ toOrigin' = IF n = -1 THEN toOrigin ELSE toOrigin \o SliceTo(request, n)
        /\ nRequest' = IF n = -1 THEN nRequest ELSE nRequest + n
        /\ client_closed' = (n = -1)
        /\ remote_sock' = IF n = -1 THEN "closed" ELSE remote_sock
        /\ pc' = IF n = -1 THEN "done" ELSE "select"
        /\ caller' = IF n = -1 THEN caller ELSE "http"
        /\ exit' = IF n = -1 THEN "send_failed" ELSE exit
    /\ UNCHANGED <<request, webserver, port, toClient, nLocal, clientPeer, originPeer,
                   sent, dials, relayVars>>
    /\ UNCHANGED <<srvVars, appVars, logVars, corsVars>>

-----------------------------------------------------------------------------
(* forward_data *)

Pending(sock) == IF sock = "client" THEN cWritten - cRead ELSE oWritten - oRead
PeerOf(sock) == IF sock = "client" THEN clientPeer ELSE originPeer

\* select reports a socket readable when bytes are waiting on it or its peer
\* has closed or reset the connection
IsReadable(sock) == Pending(sock) > 0 \/ PeerOf(sock) # "open"

\* readable, _, _ = select.select([client, remote], [], [], 60)
Ready ==
    (IF IsReadable("client") THEN <<"client">> ELSE <<>>)
    \o (IF IsReadable("remote") THEN <<"remote">> ELSE <<>>)

\* sock.recv(BUFFER_SIZE) returns the bytes that have arrived, at most BUFFER_SIZE
RecvCounts(sock) ==
    {k \in 1..Pending(sock) : k <= BUFFER_SIZE}

\* forward_data returns; handle_https_tunnel and handle_http_request return
\* after it, and so does handle_client
ReturnFromRelay(reason) ==
    /\ pc' = "done"
    /\ exit' = reason
    /\ readable' = <<>>
    /\ UNCHANGED <<client_closed, remote_sock>>

\* the wait ends after 60 seconds with no socket readable: `break`
SelectTimeout ==
    /\ pc = "select"
    /\ Ready = <<>>
    /\ ReturnFromRelay("timeout")
    /\ UNCHANGED <<request, webserver, port, caller, toClient, toOrigin, nLocal,
                   nRequest, cWritten, cRead, oWritten, oRead, clientPeer,
                   originPeer, sent, dials>>
    /\ UNCHANGED <<srvVars, appVars, logVars, corsVars>>

\* the wait ends with the sockets that are readable
Select ==
    /\ pc = "select"
    /\ Ready # <<>>
    /\ readable' = Ready
    /\ pc' = "loop"
    /\ UNCHANGED <<request, webserver, port, caller, client_closed, remote_sock,
                   toClient, toOrigin, nLocal, nRequest, cWritten, cRead, oWritten,
                   oRead, clientPeer, originPeer, sent, dials, exit>>
    /\ UNCHANGED <<srvVars, appVars, logVars, corsVars>>

\* after one socket of `readable` has been served
NextSocket ==
    /\ readable' = Tail(readable)
    /\ pc' = IF Tail(readable) = <<>> THEN "select" ELSE "loop"
    /\ UNCHANGED <<client_closed, remote_sock, exit>>

\* `if not data: return` skipped: the loop goes on to the next socket
ZeroRead_Continue == NextSocket

\* recv returned b'': `if not data: return`, with the sockets of `readable`
\* from this one on left unserved
ZeroRead ==
    /\ pc' = "done"
    /\ exit' = "eof"
    /\ readable' = readable
    /\ UNCHANGED <<client_closed, remote_sock>>

\* one pass of `for sock in readable` with sock = client:
\* data = sock.recv(BUFFER_SIZE); if not data: return; remote.send(data)
RelayFromClient ==
    /\ pc = "loop"
    /\ readable # <<>> /\ Head(readable) = "client"
    /\ \/ /\ clientPeer = "reset"
          /\ ReturnFromRelay("recv_error")
          /\ UNCHANGED <<cRead, toOrigin>>
       \/ /\ clientPeer = "eof" /\ Pending("client") = 0
          /\ ZeroRead
          /\ UNCHANGED <<cRead, toOrigin>>
       \/ /\ clientPeer # "reset"
          /\ \E k \in RecvCounts("client") :
                LET data == SubSeq(ClientStream, cRead + 1, cRead + k)
                IN  /\ cRead' = cRead + k
                    /\ \E n \in SendOutcomes(originPeer, data) :
                        IF n = -1
                        THEN /\ ReturnFromRelay("send_error")
                             /\ UNCHANGED toOrigin
                        ELSE /\ toOrigin' = toOrigin \o SliceTo(data, n)
                             /\ NextSocket
    /\ UNCHANGED <<request, webserver, port, caller, toClient, nLocal, nRequest,
                   cWritten, oWritten, oRead, clientPeer, originPeer, sent, dials>>
    /\ UNCHANGED <<srvVars, appVars, logVars, corsVars>>

\* one pass of `for sock in readable` with sock = remote
RelayFromOrigin ==
    /\ pc = "loop"
    /\ readable # <<>> /\ Head(readable) = "remote"
    /\ \/ /\ originPeer = "reset"
          /\ ReturnFromRelay("recv_error")
          /\ UNCHANGED <<oRead, toClient>>
       \/ /\ originPeer = "eof" /\ Pending("remote") = 0
          /\ ZeroRead
          /\ UNCHANGED <<oRead, toClient>>
       \/ /\ originPeer # "reset"
          /\ \E k \in RecvCounts("remote") :
                LET data == SubSeq(OriginStream, oRead + 1, oRead + k)
                IN  /\ oRead' = oRead + k
                    /\ \E n \in SendOutcomes(clientPeer, data) :
                        IF n = -1
                        THEN /\ ReturnFromRelay("send_error")
                             /\ UNCHANGED toClient
                        ELSE /\ toClient' = toClient \o SliceTo(data, n)
                             /\ NextSocket
    /\ UNCHANGED <<request, webserver, port, caller, toOrigin, nLocal, nRequest,
                   cWritten, cRead, oWritten, clientPeer, originPeer, sent, dials>>
    /\ UNCHANGED <<srvVars, appVars, logVars, corsVars>>

-----------------------------------------------------------------------------
(* The two peers *)

handlerVars == <<pc, request, webserver, port, caller, client_closed, remote_sock,
                 toClient, toOrigin, nLocal, nRequest, cRead, oRead, readable, sent,
                 dials, exit>>

InRelay == pc \in {"select", "loop"}
Running == pc \notin {"recv", "done", "resolve", "resolved", "raised"}

\* the client writes the next bytes of its stream into the relay
ClientWrites ==
    /\ InRelay /\ clientPeer = "open"
    /\ \E k \in 1..(MaxClientBytes - cWritten) : cWritten' = cWritten + k
    /\ UNCHANGED <<handlerVars, oWritten, clientPeer, originPeer>>
    /\ UNCHANGED <<srvVars, appVars, logVars, corsVars>>

\* the origin writes the next bytes of its stream
OriginWrites ==
    /\ InRelay /\ originPeer = "open"
    /\ \E k \in 1..(MaxOriginBytes - oWritten) : oWritten' = oWritten + k
    /\ UNCHANGED <<handlerVars, cWritten, clientPeer, originPeer>>
    /\ UNCHANGED <<srvVars, appVars, logVars, corsVars>>

\* the client closes its end, or its connection is reset
ClientGoes ==
    /\ Running /\ clientPeer = "open"
    /\ clientPeer' \in {"eof", "reset"}
    /\ UNCHANGED <<handlerVars, cWritten, oWritten, originPeer>>
    /\ UNCHANGED <<srvVars, appVars, logVars, corsVars>>

\* the origin closes its end, or its connection is reset
OriginGoes ==
    /\ Running /\ remote_sock = "connected" /\ originPeer = "open"
    /\ originPeer' \in {"eof", "reset"}
    /\ UNCHANGED <<handlerVars, cWritten, oWritten, clientPeer>>
    /\ UNCHANGED <<srvVars, appVars, logVars, corsVars>>

-----------------------------------------------------------------------------

Next ==
    \/ RecvRequest \/ RecvEmpty \/ RecvRaises
    \/ EndpointBlock \/ HealthCheck \/ ParseFails \/ Dispatch
    \/ TunnelDial \/ TunnelSend
    \/ HttpDial \/ HttpSend
    \/ SelectTimeout \/ Select \/ RelayFromClient \/ RelayFromOrigin
    \/ ClientWrites \/ OriginWrites \/ ClientGoes \/ OriginGoes

Spec == Init /\ [][Next]_vars

\* the steps the handler thread takes after the dispatch on the request line;
\* the interpreter schedules a thread that can run, and select returns after
\* 60 seconds at the latest
HandlerStep ==
    \/ TunnelDial \/ TunnelSend
    \/ HttpDial \/ HttpSend
    \/ SelectTimeout \/ Select \/ RelayFromClient \/ RelayFromOrigin

\* The handler with fair scheduling of its own steps.  Between the first recv
\* and the dispatch the thread only computes, so it does not stay there for
\* ever: one of EndpointBlock, HealthCheck, ParseFails and Dispatch is enabled
\* as long as pc = "dispatch".  The first recv has no timeout and returns
\* only when the client sends or closes, and the peers write and close when
\* they please: no fairness is assumed of them.
SpecFair ==
    /\ Init /\ [][Next]_vars
    /\ WF_vars(HandlerStep)
    /\ []<>(pc # "dispatch")

-----------------------------------------------------------------------------
(* Properties of the handler *)

IsPrefix(s, t) == Len(s) <= Len(t) /\ SubSeq(t, 1, Len(s)) = s

\* the bytes the relay wrote to each socket, after the handler's own writes
RelayedToOrigin == SliceFrom(toOrigin, nRequest)
RelayedToClient == SliceFrom(toClient, nLocal)

\* the request was dispatched to handle_https_tunnel
OnTunnelPath ==
    request # <<>> /\ IsProxied(request) /\ IsConnect(FirstLine(request))
    /\ ExtractAddress(FirstLine(request)).err = "none"

\* the request was answered by the health block
OnHealthPath ==
    request # <<>> /\ ~IsEndpoint(FirstLine(request)) /\ IsHealthCheck(request)

\* C1: in an established CONNECT tunnel the origin receives exactly the
\* client's bytes, in order and with none missing, and the client exactly the
\* origin's, also when a send accepts only part of a chunk: what was relayed
\* is a prefix of what the peer wrote, and unless a send raised it is all the
\* relay has read.
TunnelBytesIdentical ==
    caller = "tunnel" =>
        /\ IsPrefix(RelayedToOrigin, SubSeq(ClientStream, 1, cWritten))
        /\ IsPrefix(RelayedToClient, SubSeq(OriginStream, 1, oWritten))
        /\ exit # "send_error" =>
            /\ RelayedToOrigin = SubSeq(ClientStream, 1, cRead)
            /\ RelayedToClient = SubSeq(OriginStream, 1, oRead)

\* C2: for a CONNECT request the handler sends the exact line
\* HTTP/1.1 200 Connection Established\r\n\r\n only after the dial has
\* succeeded and before the relay reads or writes a byte, and the client gets
\* no byte before the dial has succeeded.  (What the client gets of the line
\* is what that one send accepted.)
ConnectReplyOrder ==
    OnTunnelPath =>
        /\ toClient # <<>> => remote_sock = "connected"
        /\ sent # <<>> => (sent = CONNECT_ESTABLISHED /\ remote_sock = "connected")
        /\ (pc \in {"select", "loop"} \/ cRead > 0 \/ oRead > 0 \/ caller = "tunnel")
            => (sent = CONNECT_ESTABLISHED /\ nLocal >= 1)
        /\ IsPrefix(SliceTo(toClient, nLocal), CONNECT_ESTABLISHED)
        /\ pc \in {"dispatch", "tunnel", "tunnel_send"} =>
            (cRead = 0 /\ oRead = 0 /\ RelayedToClient = <<>> /\ toOrigin = <<>>)

ConnectReplyWitness ==
    /\ OnTunnelPath /\ caller = "tunnel"
    /\ remote_sock = "connected"
    /\ toClient = CONNECT_ESTABLISHED \o OriginStream
    /\ toOrigin = ClientStream

\* C3: when the outbound dial fails, for CONNECT and for plain HTTP alike, the
\* inbound socket is closed and not one byte has been sent to the client.
DialFailureSilent ==
    /\ pc \in {"tunnel", "http"} => toClient = <<>>
    /\ exit = "dial_failed" =>
        (pc = "done" /\ client_closed /\ toClient = <<>> /\ sent = <<>>)

DialFailureWitness ==
    /\ exit = "dial_failed" /\ OnTunnelPath
    /\ client_closed /\ toClient = <<>> /\ dials = 1

CONTENT_TYPE_HTML == <<"C","o","n","t","e","n","t","-","T","y","p","e",":"," ","t","e","x","t","/","h","t","m","l">>
PROXY_IS_ALIVE == <<"P","r","o","x","y"," ","S","e","r","v","e","r"," ","i","s"," ","A","l","i","v","e">>

HealthNeverDials ==
    OnHealthPath =>
        /\ remote_sock = "none" /\ dials = 0 /\ toOrigin = <<>>
        /\ pc \in {"dispatch", "done"}
        /\ pc = "done" => (client_closed /\ sent # <<>>)

HealthNeverDialsWitness ==
    /\ OnHealthPath /\ pc = "done" /\ exit = "health"
    /\ request = ROOT_REQUEST
    /\ client_closed /\ remote_sock = "none" /\ dials = 0

\* C8: when the readiness wait of an established relay times out, the relay
\* ends and both the client socket and the origin socket are closed.
IdleTimeoutClosesBoth ==
    exit = "timeout" => (pc = "done" /\ client_closed /\ remote_sock = "closed")

\* C9: when a relay ends because a read returned no bytes or because a read
\* or a write raised, both sockets are closed, whichever side caused it.
RelayEndClosesBoth ==
    exit \in {"eof", "recv_error", "send_error"} =>
        (pc = "done" /\ client_closed /\ remote_sock = "closed")

\* C10: on every exit path of the connection handler the inbound client
\* socket has been closed by the time the handler returns.
HandlerClosesClient ==
    pc = "done" => client_closed

-----------------------------------------------------------------------------
(* Properties of the dispatch and of the plain HTTP path *)

\* the method of a request line: its first space-separated field
Method(first_line) == Split(first_line, " ")[1]
CONNECT == <<"C","O","N","N","E","C","T">>

\* the handler is in, or went through, handle_https_tunnel
InTunnel == pc \in {"tunnel", "tunnel_send"} \/ caller = "tunnel"
\* the handler is in, or went through, handle_http_request
InHttp == pc \in {"http", "http_send"} \/ caller = "http"

\* C12: a request is handled as a CONNECT tunnel if and only if the method,
\* the first field of its request line, is CONNECT; a request with another
\* method (a GET whose URL holds the text CONNECT) is handled as plain HTTP
\* and never gets the line 200 Connection Established.
TunnelIffMethodConnect ==
    /\ InTunnel => Method(FirstLine(request)) = CONNECT
    /\ InHttp => Method(FirstLine(request)) # CONNECT
    /\ sent = CONNECT_ESTABLISHED => Method(FirstLine(request)) = CONNECT

\* C13: for a plain HTTP request the whole of the request bytes, as received,
\* has been written to the outbound socket before the relay starts; no suffix
\* is dropped when a write accepts only part of them.
RequestForwardedWhole ==
    caller = "http" => (nRequest = Len(request) /\ SliceTo(toOrigin, nRequest) = request)

\* the request line has fewer than two space-separated fields, or a port
\* that int() does not accept
Malformed(req) == ExtractAddress(FirstLine(req)).err # "none"

\* C14: a malformed request line (fewer than two fields, or a port that is
\* not an integer) ends with the inbound socket closed, no byte sent to the
\* client and no outbound dial.
MalformedClosedSilently ==
    (request # <<>> /\ Malformed(request)) =>
        /\ pc \in {"dispatch", "done"}
        /\ dials = 0 /\ remote_sock = "none"
        /\ toClient = <<>> /\ sent = <<>>
        /\ pc = "done" => client_closed

\* C19: a connection handler makes at most one outbound dial attempt, and it
\* reads the request from the client exactly once: the handler is at its
\* first recv only before it has read, and the request never changes after.
OneDialOneRead ==
    [][ /\ dials' = dials \/ (dials = 0 /\ dials' = 1)
        /\ request' # request => (pc = "recv" /\ request = <<>>)
        /\ pc # "recv" => pc' # "recv" ]_vars

OneDialOneReadWitness ==
    /\ pc = "done" /\ exit = "eof" /\ caller = "http"
    /\ request = AbsRequest(EXAMPLE, PATH)
    /\ dials = 1 /\ cRead = MaxClientBytes

-----------------------------------------------------------------------------
(* The states of a connection *)

\* the relay state the handler entered after a dial that succeeded (of the
\* two sends that precede the relay, only the one of handle_http_request
\* closes remote_socket when it raises)
Relayed ==
    CASE pc = "tunnel_send" \/ caller = "tunnel" -> "TUNNELING"
      [] pc = "http_send" \/ caller = "http" -> "FORWARDING"
      [] OTHER -> IF remote_sock = "closed" THEN "FORWARDING" ELSE "TUNNELING"

\* how the handler left the connection when it returned
Terminal == IF client_closed THEN "CLOSED" ELSE "RETURNED"

\* the states the connection has been through, oldest first
Trace ==
    CASE pc \in {"recv", "dispatch"} -> <<"ACCEPTED">>
      [] pc \in {"tunnel", "http"} -> <<"ACCEPTED", "DIALING">>
      [] pc \in {"tunnel_send", "http_send", "select", "loop"} ->
            <<"ACCEPTED", "DIALING", Relayed>>
      [] pc = "done" ->
            CASE exit = "empty" \/ (exit = "error" /\ request = <<>>) ->
                    <<"ACCEPTED", Terminal>>
              [] exit = "endpoint" -> <<"ACCEPTED", "ENDPOINT", Terminal>>
              [] exit = "health" \/ (exit = "error" /\ request # <<>>) ->
                    <<"ACCEPTED", "HEALTH_RESPONDED", Terminal>>
              [] exit = "parse_error" -> <<"ACCEPTED", "PARSE_FAILED", Terminal>>
              [] exit = "dial_failed" ->
                    <<"ACCEPTED", "DIALING", "DIAL_FAILED", Terminal>>
              [] OTHER -> <<"ACCEPTED", "DIALING", Relayed, Terminal>>
      [] OTHER -> <<>>

\* the paths of ACCEPTED -> {HEALTH_RESPONDED | PARSE_FAILED | DIALING}
\*                       -> {DIAL_FAILED | TUNNELING | FORWARDING} -> CLOSED
MachinePaths == {
    <<"ACCEPTED", "HEALTH_RESPONDED", "CLOSED">>,
    <<"ACCEPTED", "PARSE_FAILED", "CLOSED">>,
    <<"ACCEPTED", "DIALING", "DIAL_FAILED", "CLOSED">>,
    <<"ACCEPTED", "DIALING", "TUNNELING", "CLOSED">>,
    <<"ACCEPTED", "DIALING", "FORWARDING", "CLOSED">> }

\* the paths the handler takes beside them
OtherPaths == {
    <<"ACCEPTED", "CLOSED">>,
    <<"ACCEPTED", "ENDPOINT", "CLOSED">>,
    <<"ACCEPTED", "DIALING", "TUNNELING", "RETURNED">>,
    <<"ACCEPTED", "DIALING", "FORWARDING", "RETURNED">> }

\* the connection is on one of the paths, and in a relay state only with the
\* dial done and successful
OnPath(paths) ==
    /\ \E p \in paths : IsPrefix(Trace, p)
    /\ Trace[Len(Trace)] \in {"TUNNELING", "FORWARDING"} =>
            (remote_sock = "connected" /\ dials = 1)

\* C20: every connection follows only the transitions ACCEPTED ->
\* {HEALTH_RESPONDED | PARSE_FAILED | DIALING} -> {DIAL_FAILED | TUNNELING |
\* FORWARDING} -> CLOSED: from ACCEPTED it enters exactly one second-stage
\* state, TUNNELING or FORWARDING only from DIALING after a dial that
\* succeeded, no state twice, and no state outside the machine.
ConnectionStateMachine ==
    /\ OnPath(MachinePaths)
    /\ [][OnPath(MachinePaths)' /\ IsPrefix(Trace, Trace')]_vars

\* what holds of the handler in place of C20: the paths of the machine and
\* the four other paths, a relay that ended leaving the handler returned with
\* client_socket not closed
HandlerPaths ==
    /\ OnPath(MachinePaths \cup OtherPaths)
    /\ [][OnPath(MachinePaths \cup OtherPaths)' /\ IsPrefix(Trace, Trace')]_vars

-----------------------------------------------------------------------------
(* Properties of the first read and of the health block *)

\* C23: when the initial read returns zero bytes the handler closes the
\* inbound socket and returns, having sent no byte, parsed nothing and dialled
\* nothing.
EmptyReadClosesSilently ==
    exit = "empty" =>
        /\ pc = "done" /\ client_closed
        /\ request = <<>> /\ webserver = <<>> /\ port = -1
        /\ toClient = <<>> /\ sent = <<>>
        /\ dials = 0 /\ remote_sock = "none" /\ toOrigin = <<>>

EmptyReadWitness ==
    /\ exit = "empty" /\ pc = "done" /\ clientPeer = "eof"
    /\ client_closed /\ toClient = <<>> /\ dials = 0

\* s.endswith(pat)
EndsWith(s, pat) == Len(s) >= Len(pat) /\ SubSeq(s, Len(s) - Len(pat) + 1, Len(s)) = pat

LOCALHOST == <<"l","o","c","a","l","h","o","s","t">>
LOOPBACK_NET == <<"1","2","7",".">>
PROXY_DOMAIN == <<"s","e","r","v","x",".","p","g","w","i","z",".","u","s",".","k","g">>

\* a Host header that identifies this server: it names the port the server
\* listens on, a loopback address, or the configured proxy domain
IdentifiesServer(host_header) ==
    LET host == Split(host_header, ":")[1]
    IN  \/ EndsWith(host_header, <<":">> \o Dec(BIND_PORT))
        \/ host = LOCALHOST \/ StartsWith(host, LOOPBACK_NET)
        \/ host = PROXY_DOMAIN

\* the handler answered the request itself
AnsweredLocally == pc = "done" /\ request # <<>> /\ exit \in {"health", "error"}

\* C22: a GET /health or GET / request is answered locally if and only if its
\* Host header identifies this server (its own listening port, a loopback
\* address or a configured proxy domain); with any other Host header, or
\* none, it is handled as proxy traffic.
HealthIffHostIsSelf ==
    (pc \notin {"recv", "dispatch"} /\ request # <<>>
        /\ ~IsEndpoint(FirstLine(request)) /\ IsHealthLine(FirstLine(request)))
    => (AnsweredLocally <=> IdentifiesServer(HostHeader(request)))

----------------------------------------------------------------------------
\* Properties of the extracted address

\* a host that is not empty and a port that is a TCP port
ValidTarget == webserver # <<>> /\ port \in 1..65535

\* the handler got past the address extraction
Extracted == pc \in {"tunnel", "tunnel_send", "http", "http_send", "select", "relay"}
                \/ (pc = "done" /\ caller # "none") \/ exit = "dial_failed"

\* C27: an outbound dial is attempted only with a non-empty host and a port in
\* 1..65535; a request whose URL field yields an empty host or a port outside
\* that range is abandoned with the socket closed, no response and no dial.
DialOnlyValidTarget ==
    /\ (dials > 0 /\ exit # "endpoint") => ValidTarget
    /\ (Extracted /\ ~ValidTarget) =>
           pc = "done" /\ client_closed /\ toClient = <<>> /\ dials = 0

----------------------------------------------------------------------------
\* Properties of the relay loop

\* the socket the loop is about to read has been closed by its peer and has
\* no byte waiting: recv returns b''
AtZeroRead ==
    /\ pc = "loop" /\ readable # <<>>
    /\ PeerOf(Head(readable)) = "eof" /\ Pending(Head(readable)) = 0

\* C30: a zero-byte read from either socket ends the relay at once: the step
\* that reads it returns, and from then on no byte is read and no byte is
\* written to either socket, even when the other socket was reported readable
\* in the same wake and has data pending.
ZeroReadEndsRelay ==
    [][ /\ (AtZeroRead /\ pc' # pc) => (pc' = "done" /\ exit' = "eof")
        /\ exit' = "eof" =>
              (pc' = "done" /\ UNCHANGED <<cRead, oRead, toClient, toOrigin>>) ]_vars

\* the client closed; select had reported both sockets, the origin with data
\* that the relay never read
ZeroReadWitness ==
    /\ exit = "eof" /\ pc = "done"
    /\ readable = <<"client", "remote">>
    /\ clientPeer = "eof" /\ originPeer = "open" /\ Pending("remote") > 0

----------------------------------------------------------------------------
\* Properties of the responses the proxy makes itself

\* the handler passed a response of its own making to client_socket.send,
\* other than the reply that opens a CONNECT tunnel
OwnResponse == sent # <<>> /\ sent # CONNECT_ESTABLISHED

\* the responses of the endpoint blocks
EndpointResponses ==
    {MISSING_URL_400, MISSING_ID_400, API_STREAM_FAILED_500, YTDLP_FAILED_500}
    \cup {Json200(b) : b \in ResultBodies}

ProxiedClosedSilentlyWitness ==
    /\ request = BAD_PORT_REQUEST /\ pc = "done" /\ exit = "parse_error"
    /\ sent = <<>> /\ toClient = <<>>

----------------------------------------------------------------------------
\* Properties of the outbound socket

\* C32: every outbound socket a handler creates is closed by the time the
\* handler returns, on every path: dial failure, failure to send the 200
\* line or the forwarded request, and the end of the relay.  (The /stream
\* endpoint, which dials too, is left aside here.)
OutboundClosedAtReturn ==
    (pc = "done" /\ exit # "endpoint") => remote_sock \in {"none", "closed"}

\* C33: within one relay the proxy holds at most one chunk of at most 8192
\* bytes at a time: a chunk read from one socket is written to the other
\* socket before any further read, so the chunks of one direction are
\* forwarded in the order they were read.
ChunkWrittenBeforeNextRead ==
    [][ /\ cRead' # cRead =>
              /\ cRead' - cRead <= BUFFER_SIZE
              /\ \/ exit' = "send_error"
                 \/ toOrigin' = toOrigin \o SubSeq(ClientStream, cRead + 1, cRead')
        /\ oRead' # oRead =>
              /\ oRead' - oRead <= BUFFER_SIZE
              /\ \/ exit' = "send_error"
                 \/ toClient' = toClient \o SubSeq(OriginStream, oRead + 1, oRead') ]_vars

----------------------------------------------------------------------------
\* Termination

\* C31: under fair scheduling of the handler's steps and of the timeout,
\* every accepted connection eventually reaches CLOSED, whatever the peers
\* do: also when the client never sends a byte and never closes.
ConnectionEventuallyClosed ==
    <>(pc = "done" /\ client_closed)

-----------------------------------------------------------------------------
(* The server: ProxyServer.start, its handler threads and their peers *)

\* the connections that clients open to the server
Conns == {1, 2}

\* the far ends of the sockets: the client of connection c and the origin
\* that client asks for
PartyOf(role, c) ==
    CASE role = "client" /\ c = 1 -> "c1"
      [] role = "client" /\ c = 2 -> "c2"
      [] role = "origin" /\ c = 1 -> "o1"
      [] role = "origin" /\ c = 2 -> "o2"
Clients == {PartyOf("client", c) : c \in Conns}
Origins == {PartyOf("origin", c) : c \in Conns}
Parties == Clients \cup Origins

\* the other end of the exchange a party takes part in
Paired(p) ==
    CASE p = "c1" -> "o1" [] p = "o1" -> "c1" [] p = "c2" -> "o2" [] p = "o2" -> "c2"

\* the bytes a party writes into a relay: one byte that names its writer
StreamOf(p) == <<p>>

A_B_ORG == <<"a","-","b",".","o","r","g">>
\* the host an origin listens at
HostOf(o) == IF o = "o1" THEN EXAMPLE ELSE A_B_ORG
\* connect((webserver, port)) reaches the origin at that host
OriginAt(host) == CHOOSE o \in Origins : HostOf(o) = host

\* the requests a client may send: a CONNECT for its origin, and a line with
\* one field (the other requests are those of Spec)
RequestsFrom(p) == {
    ConnectRequest(HostOf(Paired(p)), 443),
    NO_FIELDS_REQUEST }

\* a thread that has not been created
NoThread ==
    [pc |-> "pending", seq |-> 0, arg |-> "none", client_socket |-> "none",
     remote_socket |-> "none", remote_state |-> "none", request |-> <<>>,
     webserver |-> <<>>, port |-> -1, caller |-> "none", client_closed |-> FALSE,
     readable |-> <<>>, exit |-> "none"]

\* a thread that ended with the process, its frame gone
Killed == [NoThread EXCEPT !.pc = "killed"]

\* a party that has done nothing yet: its end of the connection, how many
\* bytes of its stream it has written and the relay has read, the bytes a
\* relay has written to it, and the request it sent (clients)
Fresh == [state |-> "open", written |-> 0, read |-> 0, got |-> <<>>, req |-> <<>>]

\* the state after ProxyServer(BIND_HOST, BIND_PORT): proxy.start() is entered
InitServer ==
    /\ lpc = "bind" /\ server_socket = "created" /\ status = -1 /\ lerr = "none"
    /\ accepted = 0
    /\ conn = [c \in Conns |-> NoThread]
    /\ wire = [p \in Parties |-> Fresh]
    /\ pc = "off"
    /\ request = <<>> /\ webserver = <<>> /\ port = -1
    /\ caller = "none" /\ client_closed = FALSE /\ remote_sock = "none"
    /\ toClient = <<>> /\ toOrigin = <<>> /\ nLocal = 0 /\ nRequest = 0
    /\ cWritten = 0 /\ cRead = 0 /\ oWritten = 0 /\ oRead = 0
    /\ clientPeer = "open" /\ originPeer = "open"
    /\ readable = <<>> /\ sent = <<>> /\ dials = 0 /\ exit = "none"
    /\ AppOff
    /\ LogOff
    /\ CorsOff

\* the process runs: the main thread is in start(), daemon threads live
Alive == lpc \in {"accept", "start"}

\* `except Exception` of start prints the error, `finally` closes the
\* listening socket, start returns and __main__ ends: the interpreter exits
\* with status 0 and the daemon threads end with it
ListenerExits(call) ==
    /\ lerr' = call
    /\ server_socket' = "closed"
    /\ lpc' = "exited"
    /\ status' = 0
    /\ conn' = [c \in Conns |->
                    IF conn[c].pc \in {"pending", "done"} THEN conn[c] ELSE Killed]
    /\ UNCHANGED <<accepted, wire, connVars, appVars, logVars, corsVars>>

\* self.server_socket.bind(...); self.server_socket.listen(100)
BindListen ==
    /\ lpc = "bind"
    /\ server_socket' = "listening"
    /\ lpc' = "accept"
    /\ UNCHANGED <<status, lerr, accepted, conn, wire, connVars, appVars, logVars, corsVars>>

\* bind (or listen) raises: the address is in use, or may not be bound
BindRaises ==
    /\ lpc = "bind"
    /\ ListenerExits("bind")

\* the handlers the listener waits for before it accepts again: start() starts
\* a thread and joins none
ListenerBlockedOn_Join == {c \in Conns : conn[c].pc \notin {"pending", "accepted", "done"}}
ListenerBlockedOn == {}

\* client_socket, addr = self.server_socket.accept()
Accept(c) ==
    /\ lpc = "accept"
    /\ ListenerBlockedOn = {}
    /\ conn[c].pc = "pending"
    /\ accepted' = accepted + 1
    /\ conn' = [conn EXCEPT ![c].pc = "accepted", ![c].seq = accepted + 1]
    /\ lpc' = "start"
    /\ UNCHANGED <<server_socket, status, lerr, wire, connVars, appVars, logVars, corsVars>>

\* accept raises
AcceptRaises ==
    /\ lpc = "accept"
    /\ ListenerExits("accept")

\* log(...); threading.Thread(target=self.handle_client, args=(client_socket,
\* addr)); daemon = True; start()
StartHandler(c) ==
    /\ lpc = "start"
    /\ conn[c].pc = "accepted"
    /\ conn' = [conn EXCEPT ![c].pc = "enter", ![c].arg = PartyOf("client", c)]
    /\ lpc' = "accept"
    /\ UNCHANGED <<server_socket, status, lerr, accepted, wire, connVars, appVars, logVars, corsVars>>

\* log or Thread.start raises (no thread can be started)
StartRaises ==
    /\ lpc = "start"
    /\ ListenerExits("dispatch")

-----------------------------------------------------------------------------
(* handle_client and its callees, run by the thread of connection c *)

\* the sockets of a handler are locals of its own frame
ClientSocket(c) == conn[c].client_socket
RemoteSocket_Shared(c) ==
    LET ds == {d \in Conns : conn[d].remote_socket # "none"}
    IN  IF ds = {} THEN "none" ELSE conn[Min(ds)].remote_socket
RemoteSocket(c) == conn[c].remote_socket

\* the thread starts: handle_client(client_socket, addr) binds its arguments
HandlerEnter(c) ==
    /\ Alive /\ conn[c].pc = "enter"
    /\ conn' = [conn EXCEPT ![c].pc = "recv", ![c].client_socket = conn[c].arg]
    /\ UNCHANGED <<lpc, server_socket, status, lerr, accepted, wire, connVars, appVars, logVars, corsVars>>

listenerVars == <<lpc, server_socket, status, lerr, accepted>>

\* request = client_socket.recv(BUFFER_SIZE): the client's request
SrvRecvRequest(c) ==
    /\ Alive /\ conn[c].pc = "recv"
    /\ LET p == ClientSocket(c)
       IN  /\ wire[p].state = "open" /\ wire[p].req = <<>>
           /\ \E r \in RequestsFrom(p) :
                /\ Len(r) <= BUFFER_SIZE
                /\ conn' = [conn EXCEPT ![c].request = r, ![c].pc = "dispatch"]
                /\ wire' = [wire EXCEPT ![p].req = r]
    /\ UNCHANGED <<listenerVars, connVars, appVars, logVars, corsVars>>

\* the first recv returns no bytes (`if not request`) or raises (`except
\* Exception`): either way client_socket is closed and the handler returns
SrvRecvNothing(c) ==
    /\ Alive /\ conn[c].pc = "recv"
    /\ LET p == ClientSocket(c)
       IN  /\ wire[p].state = "open" /\ wire[p].req = <<>>
           /\ \E how \in {"eof", "reset"} :
                /\ wire' = [wire EXCEPT ![p].state = how]
                /\ conn' = [conn EXCEPT ![c].pc = "done", ![c].client_closed = TRUE,
                                        ![c].exit = IF how = "eof" THEN "empty" ELSE "error"]
    /\ UNCHANGED <<listenerVars, connVars, appVars, logVars, corsVars>>

\* the address extraction raises: `except Exception` closes client_socket
SrvParseFails_Fatal(c) ==
    /\ Alive /\ conn[c].pc = "dispatch"
    /\ IsProxied(conn[c].request)
    /\ ExtractAddress(FirstLine(conn[c].request)).err # "none"
    /\ conn' = [conn EXCEPT ![c].pc = "done", ![c].exit = "parse_error"]
    /\ lerr' = "handler" /\ server_socket' = "closed" /\ lpc' = "exited" /\ status' = 1
    /\ UNCHANGED <<accepted, wire, connVars, appVars, logVars, corsVars>>
SrvParseFails(c) ==
    /\ Alive /\ conn[c].pc = "dispatch"
    /\ IsProxied(conn[c].request)
    /\ ExtractAddress(FirstLine(conn[c].request)).err # "none"
    /\ conn' = [conn EXCEPT ![c].pc = "done", ![c].client_closed = TRUE,
                            ![c].exit = "parse_error"]
    /\ UNCHANGED <<listenerVars, wire, connVars, appVars, logVars, corsVars>>

\* lines 451-480: the address, and the choice of tunnel or plain forwarding
SrvDispatch(c) ==
    /\ Alive /\ conn[c].pc = "dispatch"
    /\ IsProxied(conn[c].request)
    /\ LET a == ExtractAddress(FirstLine(conn[c].request))
       IN  /\ a.err = "none"
           /\ conn' = [conn EXCEPT
                ![c].webserver = a.webserver, ![c].port = a.port,
                ![c].pc = IF IsConnect(FirstLine(conn[c].request)) THEN "tunnel" ELSE "http"]
    /\ UNCHANGED <<listenerVars, wire, connVars, appVars, logVars, corsVars>>

\* handle_https_tunnel: socket.socket() and connect(); on an exception the
\* handler closes client_socket and nothing else
SrvTunnelDial(c) ==
    /\ Alive /\ conn[c].pc = "tunnel"
    /\ \E o \in DialOutcomes(conn[c].port) :
        conn' = [conn EXCEPT
            ![c].remote_socket = IF o = "ok" THEN OriginAt(conn[c].webserver) ELSE "none",
            ![c].remote_state = CASE o = "socket_error" -> "none"
                                  [] o = "connect_error" -> "created"
                                  [] o = "ok" -> "connected",
            ![c].client_closed = (o # "ok"),
            ![c].pc = IF o = "ok" THEN "tunnel_send" ELSE "done",
            ![c].exit = IF o = "ok" THEN "none" ELSE "dial_failed"]
    /\ UNCHANGED <<listenerVars, wire, connVars, appVars, logVars, corsVars>>

\* client_socket.send(b'HTTP/1.1 200 Connection Established\r\n\r\n')
SrvTunnelSend(c) ==
    /\ Alive /\ conn[c].pc = "tunnel_send"
    /\ \E n \in SendOutcomes(wire[ClientSocket(c)].state, CONNECT_ESTABLISHED) :
        conn' = [conn EXCEPT
            ![c].client_closed = (n = -1),
            ![c].pc = IF n = -1 THEN "done" ELSE "select",
            ![c].caller = IF n = -1 THEN "none" ELSE "tunnel",
            ![c].exit = IF n = -1 THEN "send_failed" ELSE "none"]
    /\ UNCHANGED <<listenerVars, wire, connVars, appVars, logVars, corsVars>>

-----------------------------------------------------------------------------
(* forward_data(client_socket, remote_socket), run by the thread of c *)

\* the socket that a name of forward_data is bound to
SockOf(c, name) == IF name = "client" THEN ClientSocket(c) ELSE RemoteSocket(c)
OtherName(name) == IF name = "client" THEN "remote" ELSE "client"

SrvPending(p) == wire[p].written - wire[p].read
SrvIsReadable(p) == SrvPending(p) > 0 \/ wire[p].state # "open"

\* readable, _, _ = select.select([client, remote], [], [], 60)
SrvReady(c) ==
    (IF SrvIsReadable(SockOf(c, "client")) THEN <<"client">> ELSE <<>>)
    \o (IF SrvIsReadable(SockOf(c, "remote")) THEN <<"remote">> ELSE <<>>)

\* forward_data returns, and the handler after it: no socket is closed
Returned(c, reason) ==
    [conn EXCEPT ![c].pc = "done", ![c].exit = reason, ![c].readable = <<>>]

\* sixty seconds with no socket readable: `break`
SrvSelectTimeout(c) ==
    /\ Alive /\ conn[c].pc = "select"
    /\ SrvReady(c) = <<>>
    /\ conn' = Returned(c, "timeout")
    /\ UNCHANGED <<listenerVars, wire, connVars, appVars, logVars, corsVars>>

SrvSelect(c) ==
    /\ Alive /\ conn[c].pc = "select"
    /\ SrvReady(c) # <<>>
    /\ conn' = [conn EXCEPT ![c].readable = SrvReady(c), ![c].pc = "loop"]
    /\ UNCHANGED <<listenerVars, wire, connVars, appVars, logVars, corsVars>>

\* one pass of `for sock in readable`: data = sock.recv(BUFFER_SIZE);
\* if not data: return; other.send(data)
SrvRelay(c) ==
    /\ Alive /\ conn[c].pc = "loop"
    /\ conn[c].readable # <<>>
    /\ LET name == Head(conn[c].readable)
           p == SockOf(c, name)
           q == SockOf(c, OtherName(name))
           rest == Tail(conn[c].readable)
       IN  \/ /\ wire[p].state = "reset"
              /\ conn' = Returned(c, "recv_error")
              /\ UNCHANGED wire
           \/ /\ wire[p].state = "eof" /\ SrvPending(p) = 0
              /\ conn' = Returned(c, "eof")
              /\ UNCHANGED wire
           \/ /\ wire[p].state # "reset"
              /\ \E k \in 1..SrvPending(p) :
                    LET data == SubSeq(StreamOf(p), wire[p].read + 1, wire[p].read + k)
                    IN  /\ k <= BUFFER_SIZE
                        /\ \E n \in SendOutcomes(wire[q].state, data) :
                            IF n = -1
                            THEN /\ conn' = Returned(c, "send_error")
                                 /\ wire' = [wire EXCEPT ![p].read = @ + k]
                            ELSE /\ conn' = [conn EXCEPT
                                        ![c].readable = rest,
                                        ![c].pc = IF rest = <<>> THEN "select" ELSE "loop"]
                                 /\ wire' = [wire EXCEPT ![p].read = @ + k,
                                                         ![q].got = @ \o SliceTo(data, n)]
    /\ UNCHANGED <<listenerVars, connVars, appVars, logVars, corsVars>>

-----------------------------------------------------------------------------
(* The peers of the server *)

\* a handler that is relaying holds a socket to party p
Relaying(p) ==
    \E c \in Conns :
        /\ conn[c].pc \in {"select", "loop"}
        /\ p \in {ClientSocket(c), RemoteSocket(c)}

\* a handler that has read its request and not returned holds a socket to p
Attached(p) ==
    \E c \in Conns :
        /\ conn[c].pc \notin {"pending", "accepted", "enter", "recv", "done"}
        /\ \/ p = ClientSocket(c)
           \/ p = RemoteSocket(c) /\ conn[c].remote_state = "connected"

\* a party writes its byte into the relay
PartyWrites(p) ==
    /\ Alive /\ Relaying(p) /\ wire[p].state = "open"
    /\ wire[p].written < Len(StreamOf(p))
    /\ wire' = [wire EXCEPT ![p].written = @ + 1]
    /\ UNCHANGED <<listenerVars, conn, connVars, appVars, logVars, corsVars>>

\* a party closes its end, or its connection is reset
PartyGoes(p) ==
    /\ Alive /\ Attached(p) /\ wire[p].state = "open"
    /\ \E how \in {"eof", "reset"} : wire' = [wire EXCEPT ![p].state = how]
    /\ UNCHANGED <<listenerVars, conn, connVars, appVars, logVars, corsVars>>

-----------------------------------------------------------------------------

NextServer ==
    \/ BindListen \/ BindRaises \/ AcceptRaises \/ StartRaises
    \/ \E c \in Conns :
        \/ Accept(c) \/ StartHandler(c) \/ HandlerEnter(c)
        \/ SrvRecvRequest(c) \/ SrvRecvNothing(c)
        \/ SrvParseFails(c) \/ SrvDispatch(c)
        \/ SrvTunnelDial(c) \/ SrvTunnelSend(c)
        \/ SrvSelectTimeout(c) \/ SrvSelect(c) \/ SrvRelay(c)
    \/ \E p \in Parties : PartyWrites(p) \/ PartyGoes(p)

SpecServer == InitServer /\ [][NextServer]_vars

-----------------------------------------------------------------------------
(* Properties of the server *)

\* C11: two concurrent connections never observe each other's bytes: every
\* byte a relay wrote to a client or origin socket of a connection was read
\* from the paired socket of the same connection, and each handler holds the
\* request of its own client and the socket to the origin that client named.
NoCrossTalk ==
    /\ \A p \in Parties :
        /\ \A i \in 1..Len(wire[p].got) :
                \E j \in 1..wire[Paired(p)].read : wire[p].got[i] = StreamOf(Paired(p))[j]
        /\ Len(wire[p].got) <= wire[Paired(p)].read
    /\ \A c \in Conns :
        /\ conn[c].request # <<>> => conn[c].request = wire[PartyOf("client", c)].req
        /\ conn[c].client_socket \in {"none", PartyOf("client", c)}
        /\ conn[c].remote_socket \in {"none", PartyOf("origin", c)}

NoCrossTalkWitness ==
    /\ \A c \in Conns : conn[c].pc \in {"select", "loop"}
    /\ wire["o1"].got = <<"c1">> /\ wire["c1"].got = <<"o1">>
    /\ wire["o2"].got = <<"c2">> /\ wire["c2"].got = <<"o2">>

\* C15: if binding the listening socket fails at startup, the process ends
\* with a non-zero exit status.
BindFailureExitsNonZero ==
    lerr = "bind" => (lpc = "exited" /\ status > 0)

\* C16: if accept, or the dispatch of a handler for an accepted connection,
\* raises, the listener keeps accepting: the accept loop is still running and
\* the listening socket is still open.
AcceptErrorSurvived ==
    lerr \in {"accept", "dispatch"} => (Alive /\ server_socket = "listening")

\* a handler that waits: for the request, for the dial, or in the relay with
\* no socket readable
Blocked(c) ==
    \/ conn[c].pc \in {"recv", "tunnel"}
    \/ conn[c].pc = "select" /\ SrvReady(c) = <<>>

\* C17: each accepted connection has its own thread and the listener never
\* waits for a handler: while a handler is blocked the listener, back at
\* accept, can accept a further connection.
ListenerNeverWaits ==
    /\ \A c \in Conns :
        conn[c].pc \notin {"pending", "accepted", "done", "killed"} => lpc \in {"accept", "start"}
    /\ \A c \in Conns, d \in Conns :
        (c # d /\ Blocked(c) /\ lpc = "accept" /\ conn[d].pc = "pending")
            => ENABLED Accept(d)

\* the first connection is blocked in its relay, and the second, accepted
\* after it, has run to completion
ListenerNeverWaitsWitness ==
    /\ conn[1].seq = 1 /\ conn[1].pc = "select" /\ SrvReady(1) = <<>>
    /\ wire["c1"].written = 0 /\ wire["o1"].written = 0
    /\ conn[2].seq = 2 /\ conn[2].pc = "done" /\ conn[2].exit = "eof"
    /\ wire["o2"].got = <<"c2">> /\ wire["c2"].got = <<"o2">>

\* the ways a handler fails or ends
Failures == {"empty", "error", "parse_error", "dial_failed", "send_failed",
             "timeout", "eof", "recv_error", "send_error"}

\* C18: no failure inside a connection handler stops the accept loop or
\* changes the state of another connection: the step on which a handler
\* fails leaves the listener, the other handlers and their peers as they were.
HandlerFailureLocal ==
    [][ \A c \in Conns :
            (conn[c].exit = "none" /\ conn'[c].exit \in Failures) =>
                /\ listenerVars' = listenerVars
                /\ \A d \in Conns \ {c} :
                    /\ conn'[d] = conn[d]
                    /\ wire'[PartyOf("client", d)] = wire[PartyOf("client", d)]
                    /\ wire'[PartyOf("origin", d)] = wire[PartyOf("origin", d)] ]_vars

\* the first handler failed on its request line; the listener then accepted
\* the second connection, whose relay runs
HandlerFailureWitness ==
    /\ conn[1].seq = 1 /\ conn[1].exit = "parse_error"
    /\ conn[2].seq = 2 /\ conn[2].pc \in {"select", "loop"}
    /\ wire["o2"].got = <<"c2">>
    /\ lpc = "accept" /\ server_socket = "listening" /\ status = -1

-----------------------------------------------------------------------------
(***************************************************************************)
(* The Flask app of serverless_handler.py: its routes, the extraction      *)
(* helper extract_youtube_stream and the module-level list ytdlp_logs.     *)
(* One action is one request handled from routing to the returned          *)
(* response.  A query parameter is the list of its values: <<>> when the   *)
(* parameter is absent.  Of a log entry the fields video_id and success    *)
(* are kept; timestamp, stdout and stderr are left out.                    *)
(***************************************************************************)

LOG_LIMIT == 10

VIDEO_ID == <<"a","b","c">>
TARGET_URL == <<"h","t","t","p",":","/","/","o",".","e","x","a","m","p","l","e","/","v">>

AppPaths == {
    <<"/","h","e","a","l","t","h">>, <<"/","l","o","g","s">>, <<"/","y","t","d","l","p">>, <<"/","s","t","r","e","a","m">>, <<"/","s","t","r","e","a","m","y","t","l","i","n","k">>,
    <<"/","a","p","i","/","s","t","r","e","a","m","/","a","b","c">>, <<"/","a","p","i","/","s","t","r","e","a","m","/">>, <<"/","p","l","a","y","g","r","o","u","n","d">>,
    <<"/","n","o","n","e","x","i","s","t","e","n","t">>, <<"/","h","e","a","l","t","h","/">> }

\* the requests sent to the app: a plain GET of every path, GET with the id or
\* the url parameter blank or set, and two POST requests
AppRequests ==
    {[method |-> "GET", path |-> p, id |-> <<>>, url |-> <<>>] : p \in AppPaths}
    \cup
    {[method |-> "GET", path |-> p, id |-> i, url |-> <<>>] :
        p \in {<<"/","y","t","d","l","p">>, <<"/","h","e","a","l","t","h">>, <<"/","l","o","g","s">>}, i \in {<< <<>> >>, <<VIDEO_ID>>}}
    \cup
    {[method |-> "GET", path |-> p, id |-> <<>>, url |-> u] :
        p \in {<<"/","s","t","r","e","a","m">>, <<"/","s","t","r","e","a","m","y","t","l","i","n","k">>, <<"/","n","o","n","e","x","i","s","t","e","n","t">>},
        u \in {<< <<>> >>, <<TARGET_URL>>}}
    \cup
    {[method |-> "POST", path |-> p, id |-> <<>>, url |-> <<>>] :
        p \in {<<"/","h","e","a","l","t","h">>, <<"/","n","o","n","e","x","i","s","t","e","n","t">>}}

\* request.args.get(name): the first value, and whether `not value` is false
ArgSet(values) == values # <<>> /\ values[1] # <<>>

API_STREAM_PREFIX == <<"/","a","p","i","/","s","t","r","e","a","m","/">>

\* the view function of the rule that matches the path; a rule matches the
\* whole path, and <video_id> matches a non-empty segment without '/'
Endpoint(path) ==
    IF path = <<"/","y","t","d","l","p">> THEN "ytdlp_endpoint"
    ELSE IF path = <<"/","s","t","r","e","a","m">> \/ path = <<"/","s","t","r","e","a","m","y","t","l","i","n","k">> THEN "stream_relay"
    ELSE IF path = <<"/","h","e","a","l","t","h">> THEN "health_check"
    ELSE IF path = <<"/","l","o","g","s">> THEN "get_logs"
    ELSE IF path = <<"/","p","l","a","y","g","r","o","u","n","d">> THEN "playground"
    ELSE IF /\ StartsWith(path, API_STREAM_PREFIX)
            /\ Len(path) > Len(API_STREAM_PREFIX)
            /\ ~Contains(SliceFrom(path, Len(API_STREAM_PREFIX)), <<"/">>)
         THEN "get_stream"
    ELSE "none"

\* the view a request is dispatched to: every rule is registered for GET
Routed(req, view) == req.method = "GET" /\ Endpoint(req.path) = view

\* ytdlp_logs.append(log_entry); if len(ytdlp_logs) > 10: ytdlp_logs.pop(0)
AppendLog(logs, log_entry) ==
    LET appended == Append(logs, log_entry)
    IN  IF Len(appended) > LOG_LIMIT THEN Tail(appended) ELSE appended

\* extract_youtube_stream: the subprocess runs, and every way out of the
\* function appends one entry; a result is returned only on success
ExtractOutcomes == {TRUE, FALSE}
LogEntry(video_id, success) == [video_id |-> video_id, success |-> success]

MISSING_ID == <<"M","i","s","s","i","n","g"," ","'","i","d","'"," ","p","a","r","a","m","e","t","e","r">>
MISSING_URL == <<"M","i","s","s","i","n","g"," ","'","u","r","l","'"," ","p","a","r","a","m","e","t","e","r">>
FAILED_STREAM == <<"F","a","i","l","e","d"," ","t","o"," ","e","x","t","r","a","c","t"," ","s","t","r","e","a","m">>
FAILED_STREAM_URL == <<"F","a","i","l","e","d"," ","t","o"," ","e","x","t","r","a","c","t"," ","s","t","r","e","a","m",
      " ","U","R","L">>
ENDPOINT_NOT_FOUND == <<"E","n","d","p","o","i","n","t"," ","n","o","t"," ","f","o","u","n","d">>
HEALTHY == <<"h","e","a","l","t","h","y">>
SERVICE == <<"y","o","u","t","u","b","e","-","s","t","r","e","a","m","-","u","r","l">>
MISSING == <<"M","i","s","s","i","n","g">>

\* jsonify({"error": message}), status
ErrorResponse(status_code, message) ==
    [status |-> status_code, body |-> [error |-> message]]

InitApp ==
    /\ ytdlp_logs = <<>> /\ app_request = NoRequest /\ app_response = NoResponse
    /\ ran = FALSE /\ fetched = FALSE
    /\ pc = "off"
    /\ request = <<>> /\ webserver = <<>> /\ port = -1
    /\ caller = "none" /\ client_closed = FALSE /\ remote_sock = "none"
    /\ toClient = <<>> /\ toOrigin = <<>> /\ nLocal = 0 /\ nRequest = 0
    /\ cWritten = 0 /\ cRead = 0 /\ oWritten = 0 /\ oRead = 0
    /\ clientPeer = "open" /\ originPeer = "open"
    /\ readable = <<>> /\ sent = <<>> /\ dials = 0 /\ exit = "none"
    /\ ServerOff
    /\ LogOff
    /\ CorsOff

\* GET /api/stream/<video_id>
get_stream ==
    \E req \in AppRequests :
        /\ Routed(req, "get_stream")
        /\ app_request' = req
        /\ \E success \in ExtractOutcomes :
            LET video_id == SliceFrom(req.path, Len(API_STREAM_PREFIX))
            IN  /\ ytdlp_logs' = AppendLog(ytdlp_logs, LogEntry(video_id, success))
                /\ app_response' =
                      IF success
                      THEN [status |-> 200, body |-> [id |-> video_id]]
                      ELSE ErrorResponse(500, FAILED_STREAM)
        /\ ran' = TRUE /\ fetched' = FALSE
        /\ UNCHANGED <<connVars, srvVars, logVars, corsVars>>

\* a view that answers 400 although the parameter is missing only after
\* running the extraction
ytdlp_endpoint_ExtractFirst ==
    \E req \in AppRequests :
        /\ Routed(req, "ytdlp_endpoint")
        /\ app_request' = req
        /\ \E success \in ExtractOutcomes :
            /\ ytdlp_logs' = AppendLog(ytdlp_logs, LogEntry(VIDEO_ID, success))
            /\ app_response' =
                  IF ~ArgSet(req.id) THEN ErrorResponse(400, MISSING_ID)
                  ELSE IF success
                  THEN [status |-> 200, body |-> [id |-> req.id[1]]]
                  ELSE ErrorResponse(500, FAILED_STREAM_URL)
        /\ ran' = TRUE /\ fetched' = FALSE
        /\ UNCHANGED <<connVars, srvVars, logVars, corsVars>>

\* GET /ytdlp
ytdlp_endpoint ==
    \E req \in AppRequests :
        /\ Routed(req, "ytdlp_endpoint")
        /\ app_request' = req
        /\ IF ~ArgSet(req.id)
           THEN /\ app_response' = ErrorResponse(400, MISSING_ID)
                /\ ran' = FALSE
                /\ UNCHANGED ytdlp_logs
           ELSE \E success \in ExtractOutcomes :
                /\ ytdlp_logs' = AppendLog(ytdlp_logs, LogEntry(req.id[1], success))
                /\ app_response' =
                      IF success
                      THEN [status |-> 200, body |-> [id |-> req.id[1]]]
                      ELSE ErrorResponse(500, FAILED_STREAM_URL)
                /\ ran' = TRUE
        /\ fetched' = FALSE
        /\ UNCHANGED <<connVars, srvVars, logVars, corsVars>>

\* the status codes of the upstream response
UpstreamStatus == {200, 206, 404}
REQUEST_FAILED == <<"u","p","s","t","r","e","a","m"," ","r","e","q","u","e","s","t"," ","f","a","i","l","e","d">>

\* GET /stream and GET /streamytlink: requests.get raises, or the upstream
\* response is streamed back with its status code
stream_relay ==
    \E req \in AppRequests :
        /\ Routed(req, "stream_relay")
        /\ app_request' = req
        /\ IF ~ArgSet(req.url)
           THEN /\ app_response' = ErrorResponse(400, MISSING_URL)
                /\ fetched' = FALSE
           ELSE /\ fetched' = TRUE
                /\ \/ app_response' = ErrorResponse(500, REQUEST_FAILED)
                   \/ \E code \in UpstreamStatus :
                        app_response' = [status |-> code, body |-> [stream |-> req.url[1]]]
        /\ ran' = FALSE
        /\ UNCHANGED <<ytdlp_logs, connVars, srvVars, logVars, corsVars>>

\* GET /health
health_check_Degraded ==
    \E req \in AppRequests :
        /\ Routed(req, "health_check")
        /\ app_request' = req
        /\ app_response' =
              IF ytdlp_logs # <<>> /\ ~ytdlp_logs[Len(ytdlp_logs)].success
              THEN [status |-> 503, body |-> [status |-> <<"d","e","g","r","a","d","e","d">>, service |-> SERVICE]]
              ELSE [status |-> 200, body |-> [status |-> HEALTHY, service |-> SERVICE]]
        /\ ran' = FALSE /\ fetched' = FALSE
        /\ UNCHANGED <<ytdlp_logs, connVars, srvVars, logVars, corsVars>>
health_check ==
    \E req \in AppRequests :
        /\ Routed(req, "health_check")
        /\ app_request' = req
        /\ app_response' = [status |-> 200, body |-> [status |-> HEALTHY, service |-> SERVICE]]
        /\ ran' = FALSE /\ fetched' = FALSE
        /\ UNCHANGED <<ytdlp_logs, connVars, srvVars, logVars, corsVars>>

\* GET /logs
get_logs_Drain ==
    \E req \in AppRequests :
        /\ Routed(req, "get_logs")
        /\ app_request' = req
        /\ app_response' = [status |-> 200, body |-> [logs |-> ytdlp_logs]]
        /\ ytdlp_logs' = <<>>
        /\ ran' = FALSE /\ fetched' = FALSE
        /\ UNCHANGED <<connVars, srvVars, logVars, corsVars>>
get_logs ==
    \E req \in AppRequests :
        /\ Routed(req, "get_logs")
        /\ app_request' = req
        /\ app_response' = [status |-> 200, body |-> [logs |-> ytdlp_logs]]
        /\ ran' = FALSE /\ fetched' = FALSE
        /\ UNCHANGED <<ytdlp_logs, connVars, srvVars, logVars, corsVars>>

PLAYGROUND_MISSING == <<"P","l","a","y","g","r","o","u","n","d"," ","n","o","t"," ","a","v","a","i","l","a","b","l","e">>

\* GET /playground: the file is served when it exists
playground ==
    \E req \in AppRequests :
        /\ Routed(req, "playground")
        /\ app_request' = req
        /\ \/ app_response' = [status |-> 200, body |-> [html |-> TRUE]]
           \/ app_response' = [status |-> 404, body |-> [text |-> PLAYGROUND_MISSING]]
        /\ ran' = FALSE /\ fetched' = FALSE
        /\ UNCHANGED <<ytdlp_logs, connVars, srvVars, logVars, corsVars>>

\* no rule matches the path: the 404 error handler
not_found ==
    \E req \in AppRequests :
        /\ Endpoint(req.path) = "none"
        /\ app_request' = req
        /\ app_response' = ErrorResponse(404, ENDPOINT_NOT_FOUND)
        /\ ran' = FALSE /\ fetched' = FALSE
        /\ UNCHANGED <<ytdlp_logs, connVars, srvVars, logVars, corsVars>>

METHOD_NOT_ALLOWED == <<"m","e","t","h","o","d"," ","n","o","t"," ","a","l","l","o","w","e","d">>

\* a rule matches the path but not the method: 405, for which the app
\* registers no handler
MethodNotAllowed ==
    \E req \in AppRequests :
        /\ Endpoint(req.path) # "none" /\ req.method # "GET"
        /\ app_request' = req
        /\ app_response' = [status |-> 405, body |-> [text |-> METHOD_NOT_ALLOWED]]
        /\ ran' = FALSE /\ fetched' = FALSE
        /\ UNCHANGED <<ytdlp_logs, connVars, srvVars, logVars, corsVars>>

NextApp ==
    \/ get_stream \/ ytdlp_endpoint \/ stream_relay
    \/ health_check \/ get_logs \/ playground
    \/ not_found \/ MethodNotAllowed

SpecApp == InitApp /\ [][NextApp]_vars

\* the last request was a GET of path
Got(path) == app_request.method = "GET" /\ app_request.path = path

\* C24: GET /ytdlp without an id parameter, and GET /stream or /streamytlink
\* without a url parameter, return status 400 with an error message that
\* contains 'Missing'; the extraction subprocess is not run, no upstream
\* request is made and ytdlp_logs is not changed.
MissingParameterIs400 ==
    [][ LET missing ==
              \/ app_request'.method = "GET" /\ app_request'.path = <<"/","y","t","d","l","p">>
                    /\ ~ArgSet(app_request'.id)
              \/ app_request'.method = "GET" /\ ~ArgSet(app_request'.url)
                    /\ app_request'.path \in {<<"/","s","t","r","e","a","m">>, <<"/","s","t","r","e","a","m","y","t","l","i","n","k">>}
        IN  missing =>
              /\ app_response'.status = 400
              /\ Contains(app_response'.body.error, MISSING)
              /\ ~ran' /\ ~fetched'
              /\ ytdlp_logs' = ytdlp_logs ]_vars

\* /ytdlp with a blank id answered 400 after an extraction has filled a log
MissingParameterWitness ==
    /\ Got(<<"/","y","t","d","l","p">>) /\ app_request.id = << <<>> >>
    /\ app_response = ErrorResponse(400, MISSING_ID)
    /\ ~ran /\ Len(ytdlp_logs) = 2

\* C25: GET /logs returns status 200 with a body whose 'logs' field is a
\* list equal to the current ytdlp_logs, and leaves ytdlp_logs unchanged.
LogsReturnedUnchanged ==
    [][ (app_request'.method = "GET" /\ app_request'.path = <<"/","l","o","g","s">>) =>
              /\ app_response'.status = 200
              /\ app_response'.body.logs = ytdlp_logs
              /\ ytdlp_logs' = ytdlp_logs ]_vars

\* /logs answered with a full list of entries
LogsWitness ==
    /\ Got(<<"/","l","o","g","s">>) /\ app_response.status = 200
    /\ Len(ytdlp_logs) = LOG_LIMIT /\ app_response.body.logs = ytdlp_logs
    /\ \E i, j \in 1..LOG_LIMIT : ytdlp_logs[i].success /\ ~ytdlp_logs[j].success

\* C26: a GET of a path that matches no registered route returns 404, and
\* GET /health returns 200 with status 'healthy', in both cases without
\* running the extraction subprocess and whatever the requests before were.
NotFoundAndHealth ==
    [][ /\ (app_request'.method = "GET" /\ Endpoint(app_request'.path) = "none") =>
              (app_response'.status = 404 /\ ~ran' /\ ytdlp_logs' = ytdlp_logs)
        /\ (app_request'.method = "GET" /\ app_request'.path = <<"/","h","e","a","l","t","h">>) =>
              /\ app_response'.status = 200
              /\ app_response'.body.status = HEALTHY
              /\ ~ran' /\ ytdlp_logs' = ytdlp_logs ]_vars

\* /health answered healthy just after a failed extraction
HealthAfterFailureWitness ==
    /\ Got(<<"/","h","e","a","l","t","h">>) /\ app_response.status = 200
    /\ app_response.body.status = HEALTHY
    /\ ytdlp_logs # <<>> /\ ~ytdlp_logs[Len(ytdlp_logs)].success

\* an unknown path answered 404 with entries in the log
NotFoundWitness ==
    /\ Got(<<"/","n","o","n","e","x","i","s","t","e","n","t">>) /\ app_response = ErrorResponse(404, ENDPOINT_NOT_FOUND)
    /\ ytdlp_logs # <<>>

-----------------------------------------------------------------------------
(***************************************************************************)
(* The threads of simple_proxy.py and what they share: the listener of     *)
(* ProxyServer.start, one handler thread per accepted connection, the      *)
(* console and the log file that log() writes, and the list ytdlp_logs.    *)
(* A handler receives nothing or 'GET /api/stream/<video_id>', the request *)
(* that runs extract_youtube_stream.  A thread is at a line of the source; *)
(* "logNNN" is the call of log() at line NNN, and a thread inside log() is *)
(* at one of its stages: print, print_rest (a long line reaches the        *)
(* console in more than one write), file.  A thread switch can happen      *)
(* between any two steps: no lock is taken anywhere in the module.         *)
(***************************************************************************)

\* the listener (main thread) and the handler threads
LISTENER == 0
Threads == Conns \cup {LISTENER}

LogLocs == {"log138", "log151", "log156", "log176", "log62", "log69", "log81",
            "log104", "log111", "log189", "log191", "log202", "log206",
            "log212", "log483"}

\* the calls of log() whose message holds the video id of the request and
\* can be longer than the buffer of the console stream
LongLocs == {"log62", "log176", "log202", "log206"}

\* the lines of extract_youtube_stream
ExtractLocs == {"log62", "run", "log69", "log81", "log104", "log111",
                "append", "check", "pop"}

ExitPaths == {"nonzero", "no_url", "success", "timeout", "exception"}

\* the frame of a thread that has not started
IdleThread ==
    [at |-> "idle", stage |-> "code", req |-> "none", path |-> "none",
     call |-> 0, n_app |-> 0, xdone |-> "no", list_error |-> FALSE,
     response |-> 0, closed |-> FALSE]

\* the thread moves to a line; at a call of log() it enters print
At(r, loc) ==
    [r EXCEPT !.at = loc,
              !.stage = IF loc \in LogLocs THEN "print" ELSE "code"]

\* extract_youtube_stream returns to line 178: `if result:` holds on the
\* success path alone; line 187 reads current_host, which is bound only when
\* the request has a Host header, and the NameError is caught at line 190
ExtractReturns(r) ==
    At([r EXCEPT !.xdone = "returned"],
       IF r.path # "success" THEN "log206"
       ELSE IF r.req = "api" THEN "log189" ELSE "log191")

\* where a thread goes on when log() returns
AfterLog(r) ==
    CASE r.at = "log138" -> At(r, "spawn")
      [] r.at = "log151" -> At(r, "close152")
      [] r.at = "log156" -> At(r, "log176")
      [] r.at = "log176" -> At(r, "call")
      [] r.at = "log62"  -> At(r, "run")
      [] r.at \in {"log69", "log81", "log104", "log111"} -> At(r, "append")
      [] r.at \in {"log189", "log191"} -> At(r, "log202")
      [] r.at \in {"log202", "log206"} -> At(r, "send")
      [] r.at = "log212" -> At(r, "close213")
      [] r.at = "log483" -> At(r, "close484")

\* where a thread goes on when log() raises: to the except clause of the
\* innermost try around the call, and out of the function (or of the thread)
\* when the call is itself in an except clause
OnRaise(r) ==
    CASE r.at = "log138" -> At(r, "stopped")
      [] r.at \in {"log151", "log156"} -> At(r, "log483")
      [] r.at \in {"log176", "log202", "log206", "log191"} -> At(r, "log212")
      [] r.at = "log189" -> At(r, "log191")
      [] r.at \in {"log62", "log69", "log81"} ->
            At([r EXCEPT !.path = "exception"], "log111")
      [] r.at \in {"log104", "log111"} ->
            At([r EXCEPT !.xdone = "raised"], "log212")
      [] r.at = "log212" -> At(r, "log483")
      [] r.at = "log483" -> At(r, "died")

\* the console: who wrote the pieces of its last line, and whether that line
\* has been ended by a newline
Write(con, t, newline) ==
    [line  |-> IF con.ended THEN <<t>> ELSE Append(con.line, t),
     ended |-> newline]

\* the lists ytdlp_logs can hold when the server has handled `past` calls one
\* after the other
PastCalls == {0, LOG_LIMIT - 1, LOG_LIMIT}
PastLogs(past) == [i \in 1..past |-> [call |-> i, success |-> TRUE]]

InitThreads ==
    /\ thr = [t \in Threads |->
                IF t = LISTENER THEN At(IdleThread, "accept") ELSE IdleThread]
    /\ console = [line |-> <<>>, ended |-> TRUE]
    /\ stdout_ok = TRUE
    /\ overlap = FALSE
    /\ \E past \in PastCalls :
          /\ calls = past
          /\ ytdlp_logs = PastLogs(past)
    /\ app_request = NoRequest /\ app_response = NoResponse
    /\ ran = FALSE /\ fetched = FALSE
    /\ pc = "off"
    /\ request = <<>> /\ webserver = <<>> /\ port = -1
    /\ caller = "none" /\ client_closed = FALSE /\ remote_sock = "none"
    /\ toClient = <<>> /\ toOrigin = <<>> /\ nLocal = 0 /\ nRequest = 0
    /\ cWritten = 0 /\ cRead = 0 /\ oWritten = 0 /\ oRead = 0
    /\ clientPeer = "open" /\ originPeer = "open"
    /\ readable = <<>> /\ sent = <<>> /\ dials = 0 /\ exit = "none"
    /\ ServerOff
    /\ CorsOff

othersOff == <<connVars, srvVars, app_request, app_response, ran, fetched, corsVars>>

\* log(), line 21: print hands the line to the console stream and flushes.  A
\* stream that is closed or broken raises, and nothing in log() catches it.
LogPrint(t) ==
    /\ thr[t].stage = "print"
    /\ IF ~stdout_ok
       THEN /\ thr' = [thr EXCEPT ![t] = OnRaise(@)]
            /\ UNCHANGED console
       ELSE \E long \in (IF thr[t].at \in LongLocs THEN BOOLEAN ELSE {FALSE}) :
            /\ console' = Write(console, t, ~long)
            /\ thr' = [thr EXCEPT ![t].stage =
                          IF long THEN "print_rest" ELSE "file"]
    /\ UNCHANGED <<stdout_ok, calls, overlap, ytdlp_logs, othersOff>>

\* log(), line 21: the rest of a long line
LogPrintRest(t) ==
    /\ thr[t].stage = "print_rest"
    /\ IF ~stdout_ok
       THEN /\ thr' = [thr EXCEPT ![t] = OnRaise(@)]
            /\ UNCHANGED console
       ELSE /\ console' = Write(console, t, TRUE)
            /\ thr' = [thr EXCEPT ![t].stage = "file"]
    /\ UNCHANGED <<stdout_ok, calls, overlap, ytdlp_logs, othersOff>>

\* log(), lines 24-29: the line is appended to the daily file; whatever open
\* or write raises is swallowed, and log() returns
LogFile(t) ==
    /\ thr[t].stage = "file"
    /\ thr' = [thr EXCEPT ![t] = AfterLog(@)]
    /\ UNCHANGED <<console, stdout_ok, calls, overlap, ytdlp_logs, othersOff>>

\* start, line 137: accept returns the socket of the next connection
AcceptConn ==
    /\ thr[LISTENER].at = "accept"
    /\ \E c \in Conns :
          /\ thr[c].at = "idle"
          /\ \A d \in Conns : thr[d].at = "idle" => c <= d
          /\ thr' = [thr EXCEPT ![LISTENER] = At(@, "log138"),
                                ![c] = At(@, "accepted")]
    /\ UNCHANGED <<console, stdout_ok, calls, overlap, ytdlp_logs, othersOff>>

\* start, lines 139-141: the handler thread of the connection is started
SpawnHandler ==
    /\ thr[LISTENER].at = "spawn"
    /\ \E c \in Conns :
          /\ thr[c].at = "accepted"
          /\ thr' = [thr EXCEPT ![LISTENER] = At(@, "accept"),
                                ![c] = At(@, "recv")]
    /\ UNCHANGED <<console, stdout_ok, calls, overlap, ytdlp_logs, othersOff>>

\* handle_client, lines 149-156: the first recv returns nothing, or the
\* request 'GET /api/stream/<video_id>' with or without a Host header
FirstRecv(c) ==
    /\ thr[c].at = "recv"
    /\ \E req \in {"empty", "api", "api_no_host"} :
          thr' = [thr EXCEPT ![c] =
                     At([@ EXCEPT !.req = req],
                        IF req = "empty" THEN "log151" ELSE "log156")]
    /\ UNCHANGED <<console, stdout_ok, calls, overlap, ytdlp_logs, othersOff>>

\* extract_youtube_stream, lines 37-61: the call builds its log entry
CallExtract(c) ==
    /\ thr[c].at = "call"
    /\ calls' = calls + 1
    /\ overlap' = (overlap \/ \E d \in Conns : thr[d].at \in ExtractLocs)
    /\ thr' = [thr EXCEPT ![c] = At([@ EXCEPT !.call = calls + 1], "log62")]
    /\ UNCHANGED <<console, stdout_ok, ytdlp_logs, othersOff>>

\* extract_youtube_stream, lines 63-111: yt-dlp runs, and the call takes one
\* of its five ways out
RunYtdlp(c) ==
    /\ thr[c].at = "run"
    /\ \E path \in ExitPaths :
          thr' = [thr EXCEPT ![c] =
                     At([@ EXCEPT !.path = path],
                        CASE path = "nonzero"   -> "log69"
                          [] path = "no_url"    -> "log81"
                          [] path = "success"   -> "append"
                          [] path = "timeout"   -> "log104"
                          [] path = "exception" -> "log111")]
    /\ UNCHANGED <<console, stdout_ok, calls, overlap, ytdlp_logs, othersOff>>

\* ytdlp_logs.append(log_entry), lines 70, 82, 86, 106, 113
AppendEntry(c) ==
    /\ thr[c].at = "append"
    /\ ytdlp_logs' = Append(ytdlp_logs,
                            [call |-> thr[c].call,
                             success |-> thr[c].path = "success"])
    /\ thr' = [thr EXCEPT ![c] = At([@ EXCEPT !.n_app = @ + 1], "check")]
    /\ UNCHANGED <<console, stdout_ok, calls, overlap, othersOff>>

\* a trim that never drops an entry
LenCheck_NoTrim(c) ==
    /\ thr[c].at = "check"
    /\ thr' = [thr EXCEPT ![c] = ExtractReturns(@)]
    /\ UNCHANGED <<console, stdout_ok, calls, overlap, ytdlp_logs, othersOff>>

\* if len(ytdlp_logs) > 10, lines 71, 83, 87, 107, 114
LenCheck(c) ==
    /\ thr[c].at = "check"
    /\ thr' = [thr EXCEPT ![c] =
                  IF Len(ytdlp_logs) > LOG_LIMIT
                  THEN At(@, "pop") ELSE ExtractReturns(@)]
    /\ UNCHANGED <<console, stdout_ok, calls, overlap, ytdlp_logs, othersOff>>

\* ytdlp_logs.pop(0), lines 72, 84, 88, 108, 115; pop raises IndexError on an
\* empty list
PopOldest(c) ==
    /\ thr[c].at = "pop"
    /\ IF ytdlp_logs = <<>>
       THEN /\ thr' = [thr EXCEPT ![c] =
                          At([@ EXCEPT !.list_error = TRUE, !.xdone = "raised"],
                             "log212")]
            /\ UNCHANGED ytdlp_logs
       ELSE /\ ytdlp_logs' = Tail(ytdlp_logs)
            /\ thr' = [thr EXCEPT ![c] = ExtractReturns(@)]
    /\ UNCHANGED <<console, stdout_ok, calls, overlap, othersOff>>

\* handle_client, lines 208-210: the response is sent and the socket closed;
\* a send that raises is caught at line 211
SendResponse(c) ==
    /\ thr[c].at = "send"
    /\ \/ thr' = [thr EXCEPT ![c] =
                     At([@ EXCEPT !.closed = TRUE,
                                  !.response = IF thr[c].path = "success"
                                               THEN 200 ELSE 500],
                        "done")]
       \/ thr' = [thr EXCEPT ![c] = At([@ EXCEPT !.response = -1], "log212")]
    /\ UNCHANGED <<console, stdout_ok, calls, overlap, ytdlp_logs, othersOff>>

\* handle_client, lines 152-153, 213-214, 484: client_socket.close()
CloseAndReturn(c) ==
    /\ thr[c].at \in {"close152", "close213", "close484"}
    /\ thr' = [thr EXCEPT ![c] = At([@ EXCEPT !.closed = TRUE], "done")]
    /\ UNCHANGED <<console, stdout_ok, calls, overlap, ytdlp_logs, othersOff>>

\* the console goes away: the terminal is closed, or the pipe that reads the
\* server's output is
ConsoleBreaks ==
    /\ stdout_ok
    /\ stdout_ok' = FALSE
    /\ UNCHANGED <<thr, console, calls, overlap, ytdlp_logs, othersOff>>

NextThreads ==
    \/ AcceptConn \/ SpawnHandler \/ ConsoleBreaks
    \/ \E t \in Threads : LogPrint(t) \/ LogPrintRest(t) \/ LogFile(t)
    \/ \E c \in Conns :
          \/ FirstRecv(c) \/ CallExtract(c) \/ RunYtdlp(c)
          \/ AppendEntry(c) \/ LenCheck(c) \/ PopOldest(c)
          \/ SendResponse(c) \/ CloseAndReturn(c)

SpecThreads == InitThreads /\ [][NextThreads]_vars

-----------------------------------------------------------------------------
(* The shared log destination *)

\* the threads that are inside log()
InLog == {t \in Threads : thr[t].stage # "code"}

\* C34: writes to the shared log destination are serialized: no two threads
\* (handlers, or a handler and the listener) are inside the log write at the
\* same moment, and no line on the console is made of the pieces of two.
LogWritesSerialized ==
    /\ Cardinality(InLog) <= 1
    /\ \A i, j \in DOMAIN console.line : console.line[i] = console.line[j]

\* C35: a failure of a log write is swallowed inside log(): the accept loop
\* goes on, no handler thread ends on the exception, and a handler that has
\* finished has closed its socket and, unless its send failed, has answered
\* the request it received.
LogFailureSwallowed ==
    /\ thr[LISTENER].at # "stopped"
    /\ \A c \in Conns :
          /\ thr[c].at # "died"
          /\ thr[c].at = "done" =>
                /\ thr[c].closed
                /\ thr[c].req # "empty" => thr[c].response # 0

-----------------------------------------------------------------------------
(* The list ytdlp_logs *)

\* no call of extract_youtube_stream is under way
NoCallRunning ==
    \A c \in Conns : thr[c].call = 0 \/ thr[c].xdone # "no"

\* the numbers of the n most recent of the calls made so far
Recent(n) == [i \in 1..n |-> calls - n + i]

\* C36: every call of extract_youtube_stream appends exactly one entry on each
\* of its ways out, and after calls made one after the other ytdlp_logs
\* holds the entries of the min(n, 10) most recent calls, in call order.
EachCallLogsOnce ==
    /\ \A c \in Conns : thr[c].xdone # "no" => thr[c].n_app = 1
    /\ (~overlap /\ NoCallRunning) =>
          [i \in DOMAIN ytdlp_logs |-> ytdlp_logs[i].call]
             = Recent(Min({calls, LOG_LIMIT}))

\* as long as the console can be written no call of log() raises, and the
\* calls made so far have each logged once
LogsOnceWhileConsoleWorks ==
    stdout_ok => EachCallLogsOnce

\* C37: with the appends and the trims of concurrent calls interleaved in any
\* way, ytdlp_logs holds at most 10 entries whenever no call is between its
\* append and its trim, and no call fails on a list operation.
ConcurrentTrimKeepsLimit ==
    /\ (\A c \in Conns : thr[c].at \notin {"check", "pop"}) =>
          Len(ytdlp_logs) <= LOG_LIMIT
    /\ \A c \in Conns : ~thr[c].list_error

\* two calls have both appended before either trimmed, and both have returned
ConcurrentTrimWitness ==
    /\ overlap
    /\ \A c \in Conns : thr[c].xdone = "returned" /\ thr[c].n_app = 1
    /\ Len(ytdlp_logs) = LOG_LIMIT
    /\ \E c \in Conns : ytdlp_logs[LOG_LIMIT].call # calls

-----------------------------------------------------------------------------
(***************************************************************************)
(* The stream relay of simple_proxy.py: the '/stream?url=...' block of     *)
(* handle_client from the connect to the upstream on, and                  *)
(* forward_response_with_cors with the forward_data it ends in.  The       *)
(* request is 'GET /stream?url=http://o.example/v'.  inbox[s] holds the    *)
(* bytes that have arrived on socket s and were not read yet, outbox[s]    *)
(* the bytes the sends on s have accepted.                                 *)
(***************************************************************************)

CLIENT_SOCKET == "client_socket"
REMOTE_SOCKET == "remote_socket"
Sockets == {CLIENT_SOCKET, REMOTE_SOCKET}

\* line 262 is forward_response_with_cors(remote_socket, client_socket) and
\* the signature is forward_response_with_cors(self, client, remote): these
\* are the sockets the two parameters are bound to
CorsClient == REMOTE_SOCKET
CorsRemote == CLIENT_SOCKET

OtherSocket(s) == IF s = CLIENT_SOCKET THEN REMOTE_SOCKET ELSE CLIENT_SOCKET

\* lines 254-257: the request sent to the upstream
UPSTREAM_REQUEST ==
    <<"G","E","T"," ","/","v"," ","H","T","T","P","/","1",".","1","\r","\n","H","o","s","t",":"," ",
      "o",".","e","x","a","m","p","l","e","\r","\n","U","s","e","r","-","A","g","e","n","t",":"," ",
      "M","o","z","i","l","l","a","/","5",".","0","\r","\n","C","o","n","n","e","c","t","i","o","n",
      ":"," ","c","l","o","s","e","\r","\n","\r","\n">>

CRLFCRLF == CRLF \o CRLF
ALLOW_ANY_ORIGIN == <<"A","c","c","e","s","s","-","C","o","n","t","r","o","l","-","A","l","l","o","w","-","O","r","i",
      "g","i","n",":"," ","*">>
ALLOW_ORIGIN_LOWER == <<"a","c","c","e","s","s","-","c","o","n","t","r","o","l","-","a","l","l","o","w","-","o","r","i",
      "g","i","n">>

\* what the upstream answers: no CORS header, one of its own, or nothing
UPSTREAM_PLAIN == <<"H","T","T","P","/","1",".","1"," ","2","0","0"," ","O","K","\r","\n","C","o","n","t","e","n",
      "t","-","T","y","p","e",":"," ","v","\r","\n","\r","\n","a","b">>
UPSTREAM_CORS == <<"H","T","T","P","/","1",".","1"," ","2","0","0"," ","O","K","\r","\n","A","c","c","e","s","s",
      "-","C","o","n","t","r","o","l","-","A","l","l","o","w","-","O","r","i","g","i","n",":"," ","x",
      "\r","\n","\r","\n","a","b">>
UpstreamStreams == {UPSTREAM_PLAIN, UPSTREAM_CORS, <<>>}

\* what the browser sends after the bytes the first recv returned: nothing,
\* or the rest of its request headers
BrowserStreams == {<<>>, <<"A","c","c","e","p","t",":"," ","v","\r","\n","\r","\n">>}

\* s.split(sep) for a separator of several bytes
RECURSIVE SplitSeq(_, _)
SplitSeq(s, sep) ==
    LET p == Find(s, sep)
    IN  IF p = -1 THEN <<s>>
        ELSE <<SliceTo(s, p)>> \o SplitSeq(SliceFrom(s, p + Len(sep)), sep)

\* sep.join(parts)
RECURSIVE Join(_, _)
Join(parts, sep) ==
    IF parts = <<>> THEN <<>>
    ELSE IF Len(parts) = 1 THEN parts[1]
    ELSE parts[1] \o sep \o Join(Tail(parts), sep)

IsCorsLine(line) == StartsWith(Lower(line), ALLOW_ORIGIN_LOWER)

\* lines 531-558: the header block with the CORS header forced or added
NewHeaderBlock(data) ==
    LET headers_part == SliceTo(data, Find(data, CRLFCRLF))
        lines == SplitSeq(headers_part, CRLF)
        new_lines == [i \in 1..Len(lines) |->
                         IF i > 1 /\ IsCorsLine(lines[i])
                         THEN ALLOW_ANY_ORIGIN ELSE lines[i]]
        has_cors == \E i \in 2..Len(lines) : IsCorsLine(lines[i])
    IN  Join(IF has_cors THEN new_lines ELSE Append(new_lines, ALLOW_ANY_ORIGIN),
             CRLF) \o CRLFCRLF

\* header_data.split(b"\r\n\r\n", 1)[1]
BodyStart(data) == SliceFrom(data, Find(data, CRLFCRLF) + Len(CRLFCRLF))

InitStream ==
    /\ spc = "connect"
    /\ header_data = <<>>
    /\ inbox = [s \in Sockets |-> <<>>]
    /\ outbox = [s \in Sockets |-> <<>>]
    /\ socks = [s \in Sockets |-> IF s = CLIENT_SOCKET THEN "open" ELSE "none"]
    /\ \E b \in BrowserStreams, u \in UpstreamStreams :
          peers = [s \in Sockets |->
                     [stream |-> IF s = CLIENT_SOCKET THEN b ELSE u,
                      written |-> 0, state |-> "open"]]
    /\ pc = "off"
    /\ request = <<>> /\ webserver = <<>> /\ port = -1
    /\ caller = "none" /\ client_closed = FALSE /\ remote_sock = "none"
    /\ toClient = <<>> /\ toOrigin = <<>> /\ nLocal = 0 /\ nRequest = 0
    /\ cWritten = 0 /\ cRead = 0 /\ oWritten = 0 /\ oRead = 0
    /\ clientPeer = "open" /\ originPeer = "open"
    /\ readable = <<>> /\ sent = <<>> /\ dials = 0 /\ exit = "none"
    /\ ServerOff
    /\ AppOff
    /\ LogOff

restOff == <<connVars, srvVars, appVars, logVars>>

\* `finally` of forward_response_with_cors, lines 570-572
CloseBoth == [s \in Sockets |-> "closed"]

\* recv on s returns: bytes have arrived, or the peers has closed
CanRecv(s) == inbox[s] # <<>> \/ peers[s].state = "eof"

\* lines 240-247: create_connection returns the upstream socket, or raises and
\* `except` at line 265 closes the client socket
StreamConnect ==
    /\ spc = "connect"
    /\ \/ /\ socks' = [socks EXCEPT ![REMOTE_SOCKET] = "open"]
          /\ spc' = "send_req"
       \/ /\ socks' = [socks EXCEPT ![CLIENT_SOCKET] = "closed"]
          /\ spc' = "done"
    /\ UNCHANGED <<header_data, inbox, outbox, peers, restOff>>

\* line 259: remote_socket.send(req), whose count is not looked at; when it
\* raises, `except` at line 265 closes the client socket only
StreamSendRequest ==
    /\ spc = "send_req"
    /\ \/ \E n \in SendCounts(UPSTREAM_REQUEST) :
             /\ outbox' = [outbox EXCEPT ![REMOTE_SOCKET] =
                              SubSeq(UPSTREAM_REQUEST, 1, n)]
             /\ spc' = "header"
             /\ UNCHANGED socks
       \/ /\ peers[REMOTE_SOCKET].state = "eof"
          /\ socks' = [socks EXCEPT ![CLIENT_SOCKET] = "closed"]
          /\ spc' = "done"
          /\ UNCHANGED outbox
    /\ UNCHANGED <<header_data, inbox, peers, restOff>>

\* lines 519-529: one turn of the loop `chunk = remote.recv(1)`
HeaderRecv ==
    /\ spc = "header"
    /\ CanRecv(CorsRemote)
    /\ IF inbox[CorsRemote] # <<>>
       THEN /\ header_data' = Append(header_data, Head(inbox[CorsRemote]))
            /\ inbox' = [inbox EXCEPT ![CorsRemote] = Tail(@)]
            /\ spc' = IF Contains(Append(header_data, Head(inbox[CorsRemote])),
                                  CRLFCRLF)
                      THEN "inject" ELSE "header"
            /\ UNCHANGED socks
       ELSE /\ UNCHANGED <<header_data, inbox>>
            /\ IF header_data = <<>>
               THEN spc' = "done" /\ socks' = CloseBoth
               ELSE spc' = "inject" /\ UNCHANGED socks
    /\ UNCHANGED <<outbox, peers, restOff>>

\* lines 531-562: the headers are rewritten and sent with sendall on `client`.
\* A block without the blank line makes the unpacking at line 532 raise, and a
\* peers that has gone makes sendall raise: `finally` closes both sockets.
InjectCors ==
    /\ spc = "inject"
    /\ \/ /\ Contains(header_data, CRLFCRLF)
          /\ outbox' = [outbox EXCEPT ![CorsClient] =
                           @ \o NewHeaderBlock(header_data) \o BodyStart(header_data)]
          /\ spc' = "relay"
          /\ UNCHANGED socks
       \/ /\ ~Contains(header_data, CRLFCRLF) \/ peers[CorsClient].state = "eof"
          /\ spc' = "done" /\ socks' = CloseBoth
          /\ UNCHANGED outbox
    /\ UNCHANGED <<header_data, inbox, peers, restOff>>

\* forward_data, lines 578-580: select returns nothing for 60 seconds
CorsSelectTimeout ==
    /\ spc = "relay"
    /\ \A s \in Sockets : ~CanRecv(s)
    /\ spc' = "done" /\ socks' = CloseBoth
    /\ UNCHANGED <<header_data, inbox, outbox, peers, restOff>>

\* forward_data, lines 582-587: what has arrived on a readable socket is read
\* (it is shorter than BUFFER_SIZE) and handed to send on the other; a zero-length read or a send that raises ends
\* the relay
CorsRelay ==
    /\ spc = "relay"
    /\ \E s \in Sockets :
          /\ CanRecv(s)
          /\ IF inbox[s] = <<>>
             THEN /\ spc' = "done" /\ socks' = CloseBoth
                  /\ UNCHANGED <<inbox, outbox>>
             ELSE /\ inbox' = [inbox EXCEPT ![s] = <<>>]
                  /\ \/ \E n \in SendCounts(inbox[s]) :
                           /\ outbox' = [outbox EXCEPT ![OtherSocket(s)] =
                                            @ \o SliceTo(inbox[s], n)]
                           /\ UNCHANGED <<spc, socks>>
                     \/ /\ peers[OtherSocket(s)].state = "eof"
                        /\ spc' = "done" /\ socks' = CloseBoth
                        /\ UNCHANGED outbox
    /\ UNCHANGED <<header_data, peers, restOff>>

\* the browser or the upstream writes its stream; the upstream answers once
\* the request has reached it
PeerWrites(s) ==
    /\ peers[s].state = "open"
    /\ peers[s].written < Len(peers[s].stream)
    /\ s = REMOTE_SOCKET => outbox[REMOTE_SOCKET] # <<>>
    /\ socks[s] = "open"
    /\ inbox' = [inbox EXCEPT ![s] = @ \o peers[s].stream]
    /\ peers' = [peers EXCEPT ![s].written = Len(peers[s].stream)]
    /\ UNCHANGED <<spc, header_data, outbox, socks, restOff>>

\* the browser or the upstream closes its end
PeerCloses(s) ==
    /\ peers[s].state = "open"
    /\ socks[s] # "none"
    /\ peers' = [peers EXCEPT ![s].state = "eof"]
    /\ UNCHANGED <<spc, header_data, inbox, outbox, socks, restOff>>

NextStream ==
    \/ StreamConnect \/ StreamSendRequest \/ HeaderRecv \/ InjectCors
    \/ CorsSelectTimeout \/ CorsRelay
    \/ \E s \in Sockets : PeerWrites(s) \/ PeerCloses(s)

SpecStream == InitStream /\ [][NextStream]_vars

-----------------------------------------------------------------------------
(* The response of the stream relay *)

\* the header lines of the bytes sent to the browser, up to the blank line
HeaderLines(data) ==
    IF Contains(data, CRLFCRLF)
    THEN SplitSeq(SliceTo(data, Find(data, CRLFCRLF)), CRLF)
    ELSE <<>>

\* C38: for 'GET /stream?url=...' the response header block is read from the
\* upstream socket and reaches the client with exactly one
\* 'Access-Control-Allow-Origin: *' header, the body follows, and both
\* sockets are closed when the relay ends.
StreamRelayedWithCors ==
    /\ StartsWith(peers[REMOTE_SOCKET].stream, header_data)
    /\ (spc = "done" /\ header_data # <<>>) =>
          /\ LET lines == HeaderLines(outbox[CLIENT_SOCKET])
             IN  Cardinality({i \in DOMAIN lines : IsCorsLine(lines[i])}) = 1
          /\ \A s \in Sockets : socks[s] = "closed"

-----------------------------------------------------------------------------
(* The address extraction alone, applied to every request of ResolveInputs *)

InitResolve ==
    /\ pc = "resolve"
    /\ request \in ResolveInputs
    /\ webserver = <<>> /\ port = -1
    /\ caller = "none" /\ client_closed = FALSE /\ remote_sock = "none"
    /\ toClient = <<>> /\ toOrigin = <<>> /\ nLocal = 0 /\ nRequest = 0
    /\ cWritten = 0 /\ cRead = 0 /\ oWritten = 0 /\ oRead = 0
    /\ clientPeer = "open" /\ originPeer = "open"
    /\ readable = <<>> /\ sent = <<>> /\ dials = 0 /\ exit = "none"
    /\ ServerOff
    /\ AppOff
    /\ LogOff
    /\ CorsOff

Resolve ==
    /\ pc = "resolve"
    /\ LET a == ExtractAddress(FirstLine(request))
       IN  /\ pc' = IF a.err = "none" THEN "resolved" ELSE "raised"
           /\ webserver' = a.webserver
           /\ port' = a.port
    /\ UNCHANGED <<request, caller, client_closed, remote_sock, toClient, toOrigin,
                   nLocal, nRequest, cWritten, cRead, oWritten, oRead,
                   clientPeer, originPeer, readable, sent, dials, exit>>
    /\ UNCHANGED <<srvVars, appVars, logVars, corsVars>>

NextResolve == Resolve

SpecResolve == InitResolve /\ [][NextResolve]_vars

\* C6: for every request line CONNECT host:port HTTP/1.1, host free of ':' and
\* '/', port a decimal number in 1..65535, the extraction ends without an
\* exception and yields exactly (host, port).
ConnectAddressExact ==
    \A h \in Hosts, P \in Ports :
        (pc # "resolve" /\ request = ConnectRequest(h, P))
            => (pc = "resolved" /\ webserver = h /\ port = P)

ConnectAddressWitness ==
    /\ pc = "resolved"
    /\ request = ConnectRequest(EXAMPLE, 443)
    /\ webserver = EXAMPLE /\ port = 443

\* C7: GET http://host/path yields (host, 80) and GET http://host:P/path yields
\* (host, P); a ':' after the first '/' of the URL never changes the port.
AbsoluteUriAddress ==
    /\ \A h \in Hosts, path \in Paths :
        (pc # "resolve" /\ request = AbsRequest(h, path))
            => (pc = "resolved" /\ webserver = h /\ port = 80)
    /\ \A h \in Hosts, P \in Ports, path \in Paths :
        (pc # "resolve" /\ request = AbsPortRequest(h, P, path))
            => (pc = "resolved" /\ webserver = h /\ port = P)

AbsoluteUriWitness ==
    /\ pc = "resolved"
    /\ request = AbsPortRequest(EXAMPLE, 8080, PATH)
    /\ webserver = EXAMPLE /\ port = 8080

\* C28: 'scheme://' is stripped only as a prefix of the URL field: for a URL
\* field that begins with the host and holds '://' later, in its path or
\* query, the extraction yields that host and port 80.
SchemeStrippedOnlyAsPrefix ==
    \A h \in Hosts :
        (request = UrlRequest(h \o LATE_SCHEME) /\ pc # "resolve") =>
            pc = "resolved" /\ webserver = h /\ port = DEFAULT_PORT

\* C29: for a URL field that holds neither ':' nor '/' (a bare hostname) the
\* extraction yields the whole field as host and port 80.
BareHostAddress ==
    \A h \in Hosts :
        (request = UrlRequest(h) /\ pc # "resolve") =>
            pc = "resolved" /\ webserver = h /\ port = DEFAULT_PORT

BareHostWitness ==
    /\ request = UrlRequest(EXAMPLE)
    /\ pc = "resolved" /\ webserver = EXAMPLE /\ port = DEFAULT_PORT

============================================================================
